---------------------------- MODULE Spec2Model ----------------------------
(***************************************************************************)
(* A model of the ADNI2BIDS tools:                                         *)
(*   - the category classifier ADNI2BIDSConverter.map_modality_to_bids     *)
(*     and the session loop convert_session_with_dcm2niix                  *)
(*     (adni2bids_converter.py),                                           *)
(*   - the rename planner plan_renames and the rename executor             *)
(*     execute_renames (fix_bids_naming.py).                               *)
(*                                                                         *)
(* Python strings are modelled as sequences of one-character strings, so   *)
(* that upper(), `in`, split() and replace() are computed character by     *)
(* character as the interpreter computes them.  A path is such a sequence  *)
(* with "/" as the separator.                                              *)
(***************************************************************************)
EXTENDS Integers, Sequences, FiniteSets, TLC

VARIABLES
    pc,             \* position of the running function
    \* ---- map_modality_to_bids called on its own
    modality_dir,   \* the argument of map_modality_to_bids
    results,        \* the pairs returned by the successive calls, in order
    \* ---- the filesystem seen by fix_bids_naming.py
    fs,             \* the files on disk: the paths for which os.path.exists is true
    dirs,           \* the directories on disk
    \* ---- plan_renames
    issues,         \* the argument: the nested dict, flattened in iteration order
    rename_plan,    \* the list being built / the argument of execute_renames
    bi,             \* index of the (subject, session, modality) item being planned
    gi,             \* index, among the item's base names, of the one being planned
    \* ---- execute_renames
    dry_run,        \* the mode of the current run
    fs0,            \* the filesystem when the current run started
    ei,             \* index of the plan entry being handled
    success_count,
    error_count,
    errors,
    run,            \* number of the current run of execute_renames (1, 2)
    first,          \* what the first run returned and left on disk
    \* ---- main, convert_all_subjects, convert_subject (adni2bids_converter.py)
    mode,           \* "subject" (--subject given) or "batch"
    subjects,       \* the subject ids to convert, in order
    tree,           \* the DICOM tree: per subject, its scan (see Scans)
    si,             \* index of the subject being converted
    sessions,       \* convert_subject: sorted(sessions.items())
    di,             \* index of the session being converted
    subject_success,  \* convert_subject: success
    subject_results,  \* convert_all_subjects: results, as a list of (subject, value)
    exit_code,      \* the code the process exits with, None while it runs
    \* ---- convert_session_with_dcm2niix
    subject_id,     \* the argument subject_id
    session_date,   \* the argument session_date
    session_data,   \* the argument: list of (modality_dir, session_timestamp_dir)
    source_state,   \* per acquisition, the state of dicom_source on disk
    ai,             \* index of the acquisition being handled
    success,
    conversion_count,
    invocations,    \* the external converter's invocations, in order
    made_dirs,      \* the category directories created under the session directory
    log             \* what the session logged, one line per acquisition handled

vars == << pc, modality_dir, results, fs, dirs, issues, rename_plan, bi, gi,
           dry_run, fs0, ei, success_count, error_count, errors, run, first,
           mode, subjects, tree, si, sessions, di, subject_success, subject_results,
           exit_code, subject_id, session_date, session_data, source_state,
           ai, success, conversion_count, invocations, made_dirs, log >>

-----------------------------------------------------------------------------
(* Python str operations, on sequences of characters.                       *)

Lower == <<"a","b","c","d","e","f","g","h","i","j","k","l","m",
           "n","o","p","q","r","s","t","u","v","w","x","y","z">>
Upper == <<"A","B","C","D","E","F","G","H","I","J","K","L","M",
           "N","O","P","Q","R","S","T","U","V","W","X","Y","Z">>

\* str.upper() of one character: a lowercase letter becomes its capital,
\* every other character is kept.
UpperChar(c) ==
    IF \E i \in 1..Len(Lower) : Lower[i] = c
    THEN Upper[CHOOSE i \in 1..Len(Lower) : Lower[i] = c]
    ELSE c

\* str.upper()
StrUpper(s) == [i \in 1..Len(s) |-> UpperChar(s[i])]

\* s.startswith(t, i - 1): t occurs in s at (1-based) position i
OccursAt(t, s, i) ==
    /\ i >= 1
    /\ i + Len(t) - 1 <= Len(s)
    /\ SubSeq(s, i, i + Len(t) - 1) = t

\* t in s
StrIn(t, s) == \E i \in 1..(Len(s) - Len(t) + 1) : OccursAt(t, s, i)

(* The static tables built by ADNI2BIDSConverter.__init__.  A dict is the   *)
(* sequence of its items in insertion order (the order items() iterates).  *)

\* self.modality_mapping: k is the ADNI directory name, v the BIDS modality
modality_mapping ==
  << [k |-> <<"M","P","R","A","G","E">>, v |-> "anat"],
     [k |-> <<"M","P","-","R","A","G","E">>, v |-> "anat"],
     [k |-> <<"A","c","c","e","l","e","r","a","t","e","d","_","S","a","g","i","t","t","a","l","_","M","P","R","A","G","E">>, v |-> "anat"],
     [k |-> <<"A","c","c","e","l","e","r","a","t","e","d","_","S","a","g","i","t","t","a","l","_","M","P","R","A","G","E","_","_","M","S","V","2","1","_">>, v |-> "anat"],
     [k |-> <<"A","c","c","e","l","e","r","a","t","e","d","_","S","a","g","i","t","t","a","l","_","M","P","R","A","G","E","_","_","M","S","V","2","2","_">>, v |-> "anat"],
     [k |-> <<"A","c","c","e","l","e","r","a","t","e","d","_","S","a","g","i","t","t","a","l","_","M","P","R","A","G","E","_","N","D">>, v |-> "anat"],
     [k |-> <<"S","a","g","i","t","t","a","l","_","3","D","_","A","c","c","e","l","e","r","a","t","e","d","_","M","P","R","A","G","E">>, v |-> "anat"],
     [k |-> <<"M","P","R","A","G","E","_","G","R","A","P","P","A","2">>, v |-> "anat"],
     [k |-> <<"M","P","R","A","G","E","_","S","E","N","S","E","2">>, v |-> "anat"],
     [k |-> <<"A","c","c","e","l","e","r","a","t","e","d","_","S","a","g","_","I","R","-","F","S","P","G","R">>, v |-> "anat"],
     [k |-> <<"A","c","c","e","l","e","r","a","t","e","d","_","S","a","g","i","t","t","a","l","_","I","R","-","F","S","P","G","R">>, v |-> "anat"],
     [k |-> <<"S","a","g","_","I","R","-","F","S","P","G","R">>, v |-> "anat"],
     [k |-> <<"S","a","g","_","I","R","-","S","P","G","R">>, v |-> "anat"],
     [k |-> <<"A","c","c","e","l","e","r","a","t","e","d","_","S","a","g","_","I","R","-","S","P","G","R">>, v |-> "anat"],
     [k |-> <<"M","P","-","R","A","G","E","_","R","E","P","E","A","T">>, v |-> "anat"],
     [k |-> <<"I","R","-","F","S","P","G","R","-","R","e","p","e","a","t">>, v |-> "anat"],
     [k |-> <<"R","E","P","E","A","T","_","S","A","G","_","3","D","_","M","P","_","R","A","G","E">>, v |-> "anat"],
     [k |-> <<"R","E","P","E","A","T","_","S","A","G","_","3","D","_","M","P","_","R","A","G","E","_","N","O","_","A","N","G","L","E">>, v |-> "anat"],
     [k |-> <<"M","P","_","R","A","G","E","_","S","A","G","I","T","T","A","L","_","R","E","P","E","A","T">>, v |-> "anat"],
     [k |-> <<"M","P","_","R","A","G","E","_","S","A","G","I","T","T","A","L">>, v |-> "anat"],
     [k |-> <<"S","A","G","_","M","P","R","A","G","E","_","N","O","_","A","N","G","L","E">>, v |-> "anat"],
     [k |-> <<"S","A","G","_","M","P","R","A","G","E","_","G","R","A","P","P","A","2","_","N","O","_","A","N","G","L","E">>, v |-> "anat"],
     [k |-> <<"S","A","G","_","3","D","_","M","P","R","A","G","E">>, v |-> "anat"],
     [k |-> <<"S","A","G","_","3","D","_","M","P","R","A","G","E","_","N","O","_","A","N","G","L","E">>, v |-> "anat"],
     [k |-> <<"I","R","-","S","P","G","R">>, v |-> "anat"],
     [k |-> <<"I","R","-","S","P","G","R","_","w","_","a","c","c","e","l","e","r","a","t","i","o","n">>, v |-> "anat"],
     [k |-> <<"I","R","-","F","S","P","G","R">>, v |-> "anat"],
     [k |-> <<"I","R","-","F","S","P","G","R","_","_","r","e","p","l","a","c","e","s","_","M","P","-","R","a","g","e","_">>, v |-> "anat"],
     [k |-> <<"M","P","-","R","A","G","E","-","R","e","p","e","a","t">>, v |-> "anat"],
     [k |-> <<"M","P","R","A","G","E","_","R","e","p","e","a","t">>, v |-> "anat"],
     [k |-> <<"M","P","-","R","A","G","E","-","R","E","P","E","A","T">>, v |-> "anat"],
     [k |-> <<"M","P","R","A","G","E","_","r","e","p","e","a","t">>, v |-> "anat"],
     [k |-> <<"C","S","_","S","a","g","i","t","t","a","l","_","M","P","R","A","G","E","_","_","M","S","V","2","2","_">>, v |-> "anat"],
     [k |-> <<"A","c","c","e","l","e","r","a","t","e","d","_","S","a","g","i","t","t","a","l","_","M","P","R","A","G","E","_","R","E","P","E","A","T">>, v |-> "anat"],
     [k |-> <<"A","c","c","e","l","e","r","a","t","e","d","_","S","a","g","i","t","t","a","l","_","M","P","R","A","G","E","_","r","e","p","e","a","t">>, v |-> "anat"],
     [k |-> <<"A","c","c","e","l","e","r","a","t","e","d","_","S","a","g","i","t","t","a","l","_","M","P","R","A","G","E","_","M","S","V","2","1">>, v |-> "anat"],
     [k |-> <<"S","a","g","i","t","t","a","l","_","3","D","_","A","c","c","e","l","e","r","a","t","e","d","_","M","P","R","A","G","E","_","_","M","S","V","2","1","_">>, v |-> "anat"],
     [k |-> <<"S","a","g","i","t","t","a","l","_","3","D","_","A","c","c","e","l","e","r","a","t","e","d","_","M","P","R","A","G","E","_","R","E","P","E","A","T">>, v |-> "anat"],
     [k |-> <<"A","c","c","e","l","e","r","a","t","e","d","_","S","a","g","i","t","t","a","l","_","M","P","R","A","G","E","_","M","P","R","_","C","o","r">>, v |-> "anat"],
     [k |-> <<"A","c","c","e","l","e","r","a","t","e","d","_","S","a","g","i","t","t","a","l","_","M","P","R","A","G","E","_","M","P","R","_","T","r","a">>, v |-> "anat"],
     [k |-> <<"R","E","P","E","A","T","_","S","A","G","_","3","D","_","M","P","R","A","G","E">>, v |-> "anat"],
     [k |-> <<"A","c","c","e","l","e","r","a","t","e","d","_","S","A","G","_","I","R","-","S","P","G","R">>, v |-> "anat"],
     [k |-> <<"S","a","g","_","I","R","-","S","P","G","R","-","R","E","P","E","A","T">>, v |-> "anat"],
     [k |-> <<"H","S","_","S","a","g","i","t","t","a","l","_","M","P","R","A","G","E","_","_","M","S","V","2","2","_">>, v |-> "anat"],
     [k |-> <<"M","P","R","A","G","E","_","S","2","_","D","I","S","2","D">>, v |-> "anat"],
     [k |-> <<"3","D","_","T","1","_","S","A","G">>, v |-> "anat"],
     [k |-> <<"3","D","_","M","P","R","A","G","E">>, v |-> "anat"],
     [k |-> <<"V","W","I","P","_","C","o","r","o","n","a","l","_","3","D","_","A","c","c","e","l","e","r","a","t","e","d","_","M","P","R","A","G","E">>, v |-> "anat"],
     [k |-> <<"S","a","g","i","t","t","a","l","_","3","D","_","F","L","A","I","R">>, v |-> "anat"],
     [k |-> <<"S","a","g","i","t","t","a","l","_","3","D","_","F","L","A","I","R","_","_","M","S","V","2","2","_">>, v |-> "anat"],
     [k |-> <<"S","a","g","i","t","t","a","l","_","3","D","_","F","L","A","I","R","_","_","M","S","V","2","3","_">>, v |-> "anat"],
     [k |-> <<"A","x","i","a","l","_","F","L","A","I","R">>, v |-> "anat"],
     [k |-> <<"S","a","g","i","t","t","a","l","_","3","D","_","T","2","_","S","P","A","C","E","_","_","M","S","V","2","1","_">>, v |-> "anat"],
     [k |-> <<"S","a","g","i","t","t","a","l","_","3","D","_","T","2","_","V","i","s","t","a","_","_","M","S","V","2","1","_">>, v |-> "anat"],
     [k |-> <<"C","S","_","S","a","g","i","t","t","a","l","_","3","D","_","T","2","_","V","i","s","t","a","_","_","M","S","V","2","4","_">>, v |-> "anat"],
     [k |-> <<"S","a","g","i","t","t","a","l","_","3","D","_","T","2","_","S","P","A","C","E","_","M","S","V","2","1">>, v |-> "anat"],
     [k |-> <<"A","X","I","A","L","_","F","L","A","I","R">>, v |-> "anat"],
     [k |-> <<"F","L","A","I","R">>, v |-> "anat"],
     [k |-> <<"t","2","_","f","l","a","i","r","_","S","A","G">>, v |-> "anat"],
     [k |-> <<"S","a","g","i","t","t","a","l","_","3","D","_","F","L","A","I","R","_","M","S","V","3","3">>, v |-> "anat"],
     [k |-> <<"S","a","g","i","t","t","a","l","_","3","D","_","F","L","A","I","R","_","M","P","R","_","C","o","r">>, v |-> "anat"],
     [k |-> <<"S","a","g","i","t","t","a","l","_","3","D","_","F","L","A","I","R","_","M","P","R","_","T","r","a">>, v |-> "anat"],
     [k |-> <<"C","S","_","S","a","g","i","t","t","a","l","_","3","D","_","F","L","A","I","R","_","_","M","S","V","2","4","_">>, v |-> "anat"],
     [k |-> <<"S","a","g","i","t","t","a","l","_","3","D","_","F","L","A","I","R","_","_","M","S","V","2","3","_","_","R","P","T">>, v |-> "anat"],
     [k |-> <<"S","a","g","i","t","t","a","l","_","3","D","_","F","L","A","I","R","_","R","e","p","e","a","t">>, v |-> "anat"],
     [k |-> <<"A","x","i","a","l","_","3","D","_","F","L","A","I","R">>, v |-> "anat"],
     [k |-> <<"A","x","i","a","l","_","r","s","f","M","R","I","_","_","E","y","e","s","_","O","p","e","n","_">>, v |-> "func"],
     [k |-> <<"A","x","i","a","l","_","r","s","f","M","R","I","_","_","E","Y","E","S","_","O","P","E","N","_">>, v |-> "func"],
     [k |-> <<"A","x","i","a","l","_","f","c","M","R","I","_","_","E","Y","E","S","_","O","P","E","N","_">>, v |-> "func"],
     [k |-> <<"A","x","i","a","l","_","f","c","M","R","I","_","_","E","y","e","s","_","O","p","e","n","_">>, v |-> "func"],
     [k |-> <<"A","x","i","a","l","_","M","B","_","r","s","f","M","R","I","_","_","E","y","e","s","_","O","p","e","n","_">>, v |-> "func"],
     [k |-> <<"A","x","i","a","l","_","H","B","_","r","s","f","M","R","I","_","_","E","y","e","s","_","O","p","e","n","_","_","_","M","S","V","2","2","_">>, v |-> "func"],
     [k |-> <<"A","x","i","a","l","_","H","B","_","r","s","f","M","R","I","_","_","E","y","e","s","_","O","p","e","n","_">>, v |-> "func"],
     [k |-> <<"R","e","s","t","i","n","g","_","S","t","a","t","e","_","f","M","R","I">>, v |-> "func"],
     [k |-> <<"E","x","t","e","n","d","e","d","_","R","e","s","t","i","n","g","_","S","t","a","t","e","_","f","M","R","I">>, v |-> "func"],
     [k |-> <<"A","x","i","a","l","_","f","c","M","R","I">>, v |-> "func"],
     [k |-> <<"A","x","i","a","l","_","M","B","_","r","s","f","M","R","I","_","_","E","Y","E","S","_","O","P","E","N","_","_","_","M","S","V","2","2","_">>, v |-> "func"],
     [k |-> <<"A","x","i","a","l","_","r","s","f","M","R","I","_","_","E","y","e","s","_","O","p","e","n","_","_","M","S","V","2","1","_">>, v |-> "func"],
     [k |-> <<"A","x","i","a","l","_","r","s","f","M","R","I","_","_","E","y","e","s","_","O","p","e","n","_","_","_","M","S","V","2","1">>, v |-> "func"],
     [k |-> <<"A","x","i","a","l","_","r","s","f","M","R","I","_","_","E","y","e","s","_","O","p","e","n","_","_","_","M","S","V","2","1","_">>, v |-> "func"],
     [k |-> <<"A","x","i","a","l","_","f","c","M","R","I","_","_","E","Y","E","S","_","O","P","E","N","_","_","R","E","P","E","A","T">>, v |-> "func"],
     [k |-> <<"A","X","I","A","L","_","R","S","_","f","M","R","I","_","_","E","Y","E","S","_","O","P","E","N","_">>, v |-> "func"],
     [k |-> <<"A","x","i","a","l","_","M","B","_","r","s","f","M","R","I","_","A","P">>, v |-> "func"],
     [k |-> <<"E","x","t","e","n","d","e","d","_","A","X","I","A","L","_","r","s","f","M","R","I","_","E","Y","E","S","_","O","P","E","N">>, v |-> "func"],
     [k |-> <<"A","x","i","a","l","_","R","E","S","T","I","N","G","_","f","c","M","R","I","_","_","E","Y","E","S","_","O","P","E","N","_">>, v |-> "func"],
     [k |-> <<"A","x","i","a","l","_","-","_","A","d","v","a","n","c","e","d","_","f","M","R","I","_","6","4","_","C","h","a","n","n","e","l">>, v |-> "func"],
     [k |-> <<"e","p","i","_","2","s","_","r","e","s","t","i","n","g","_","s","t","a","t","e">>, v |-> "func"],
     [k |-> <<"A","x","i","a","l","_","M","B","_","D","T","I","_","P","A","_","_","M","S","V","2","1","_">>, v |-> "dwi"],
     [k |-> <<"A","x","i","a","l","_","M","B","_","D","T","I","_","A","P","_","_","M","S","V","2","1","_">>, v |-> "dwi"],
     [k |-> <<"A","x","i","a","l","_","H","B","_","d","M","R","I","_","_","M","S","2","1","_">>, v |-> "dwi"],
     [k |-> <<"A","x","i","a","l","_","M","B","_","d","M","R","I","_","P","A","_","_","M","S","V","2","1","_">>, v |-> "dwi"],
     [k |-> <<"A","x","i","a","l","_","M","B","_","d","M","R","I","_","A","P","_","_","M","S","V","2","1","_">>, v |-> "dwi"],
     [k |-> <<"A","x","i","a","l","_","D","T","I">>, v |-> "dwi"],
     [k |-> <<"A","x","i","a","l","_","D","T","I","_","_","M","S","V","2","1","_">>, v |-> "dwi"],
     [k |-> <<"A","x","i","a","l","_","M","B","_","d","M","R","I","_","A","_","_","P","_","_","M","S","V","2","1","_">>, v |-> "dwi"],
     [k |-> <<"A","x","i","a","l","_","M","B","_","d","M","R","I","_","P","_","_","A","_","_","M","S","V","2","1","_">>, v |-> "dwi"],
     [k |-> <<"A","x","i","a","l","_","d","M","R","I","_","_","M","S","V","2","1","_">>, v |-> "dwi"],
     [k |-> <<"A","x","i","a","l","_","M","B","_","D","T","I">>, v |-> "dwi"],
     [k |-> <<"A","x","i","a","l","_","D","T","I","_","_","M","S","V","2","0","_">>, v |-> "dwi"],
     [k |-> <<"A","x","i","a","l","_","D","T","I","_","M","S","V","2","1">>, v |-> "dwi"],
     [k |-> <<"A","x","i","a","l","_","F","i","e","l","d","_","M","a","p","p","i","n","g">>, v |-> "fmap"],
     [k |-> <<"F","i","e","l","d","_","M","a","p","p","i","n","g">>, v |-> "fmap"],
     [k |-> <<"W","I","P","_","F","i","e","l","d","_","M","a","p","p","i","n","g">>, v |-> "fmap"],
     [k |-> <<"F","i","e","l","d","_","M","a","p","p","i","n","g","_","R","E","P","E","A","T">>, v |-> "fmap"],
     [k |-> <<"F","i","e","l","d","_","M","a","p","p","i","n","g","_","r","e","p","e","a","t">>, v |-> "fmap"],
     [k |-> <<"P","e","r","f","u","s","i","o","n","_","W","e","i","g","h","t","e","d">>, v |-> "perf"],
     [k |-> <<"A","S","L","_","P","e","r","f","u","s","i","o","n">>, v |-> "perf"],
     [k |-> <<"A","x","i","a","l","_","2","D","_","P","A","S","L">>, v |-> "perf"],
     [k |-> <<"A","x","i","a","l","_","3","D","_","P","A","S","L">>, v |-> "perf"],
     [k |-> <<"S","O","U","R","C","E","_","-","_","A","x","i","a","l","_","2","D","_","P","A","S","L">>, v |-> "perf"],
     [k |-> <<"A","x","i","a","l","_","3","D","_","P","A","S","L","_","_","E","y","e","s","_","O","p","e","n","_">>, v |-> "perf"],
     [k |-> <<"W","I","P","_","S","O","U","R","C","E","_","-","_","A","x","i","a","l","_","3","D","_","p","C","A","S","L","_","_","E","y","e","s","_","O","p","e","n","_">>, v |-> "perf"],
     [k |-> <<"A","A","H","e","a","d","_","S","c","o","u","t">>, v |-> "exclude"],
     [k |-> <<"A","A","H","e","a","d","_","S","c","o","u","t","_","M","P","R","_","s","a","g">>, v |-> "exclude"],
     [k |-> <<"A","A","H","e","a","d","_","S","c","o","u","t","_","M","P","R","_","c","o","r">>, v |-> "exclude"],
     [k |-> <<"A","A","H","e","a","d","_","S","c","o","u","t","_","M","P","R","_","t","r","a">>, v |-> "exclude"],
     [k |-> <<"C","a","l","i","b","r","a","t","i","o","n","_","S","c","a","n">>, v |-> "exclude"],
     [k |-> <<"r","e","l","C","B","F">>, v |-> "exclude"],
     [k |-> <<"M","o","C","o","S","e","r","i","e","s">>, v |-> "exclude"],
     [k |-> <<"C","a","l","_","8","H","R","B","R","A","I","N">>, v |-> "exclude"],
     [k |-> <<"B","1","-","C","a","l","i","b","r","a","t","i","o","n","_","P","A">>, v |-> "exclude"],
     [k |-> <<"B","1","-","C","a","l","i","b","r","a","t","i","o","n","_","B","o","d","y">>, v |-> "exclude"],
     [k |-> <<"B","1","-","c","a","l","i","b","r","a","t","i","o","n","_","B","o","d","y">>, v |-> "exclude"],
     [k |-> <<"B","1","-","c","a","l","i","b","r","a","t","i","o","n","_","H","e","a","d">>, v |-> "exclude"],
     [k |-> <<"S","A","G","_","B","1","_","C","A","L","I","B","R","A","T","I","O","N","_","B","O","D","Y">>, v |-> "exclude"],
     [k |-> <<"S","A","G","_","B","1","_","C","A","L","I","B","R","A","T","I","O","N","_","H","E","A","D">>, v |-> "exclude"],
     [k |-> <<"S","A","G","_","B","1","_","C","A","L","I","B","R","A","T","I","O","N","_","B","O","D","Y","_","R","E","P","E","A","T">>, v |-> "exclude"],
     [k |-> <<"r","e","p","e","a","t","_","S","A","G","_","B","1","_","C","A","L","I","B","R","A","T","I","O","N","_","B","O","D","Y">>, v |-> "exclude"],
     [k |-> <<"C","a","l","_","H","e","a","d","_","2","4">>, v |-> "exclude"],
     [k |-> <<"A","S","S","E","T","_","C","a","l">>, v |-> "exclude"],
     [k |-> <<"A","x","i","a","l","_","M","B","_","D","T","I","_","T","E","N","S","O","R","_","B","0">>, v |-> "exclude"],
     [k |-> <<"A","x","i","a","l","_","M","B","_","D","T","I","_","F","A">>, v |-> "exclude"],
     [k |-> <<"A","x","i","a","l","_","M","B","_","D","T","I","_","A","D","C">>, v |-> "exclude"],
     [k |-> <<"A","x","i","a","l","_","M","B","_","D","T","I","_","T","R","A","C","E","W">>, v |-> "exclude"],
     [k |-> <<"A","x","i","a","l","_","T","2","_","S","t","a","r","-","R","e","p","e","a","t","e","d","_","w","i","t","h","_","e","x","a","c","t","_","c","o","p","y","_","o","f","_","F","L","A","I","R">>, v |-> "exclude"],
     [k |-> <<"C","O","R","O","N","A","L">>, v |-> "exclude"],
     [k |-> <<"C","a","l","_","R","M","_","8","H","R","B","R","A","I","N">>, v |-> "exclude"],
     [k |-> <<"A","X","I","A","L","_","R","F","O","R","M","A","T","_","1">>, v |-> "exclude"],
     [k |-> <<"A","A","H","e","a","d","_","S","c","o","u","t","_","6","4","c","h","-","h","e","a","d","-","c","o","i","l">>, v |-> "exclude"],
     [k |-> <<"A","A","H","e","a","d","_","S","c","o","u","t","_","6","4","c","h","-","h","e","a","d","-","c","o","i","l","_","M","P","R","_","s","a","g">>, v |-> "exclude"],
     [k |-> <<"B","1","-","C","a","l","i","b","r","a","t","i","o","n">>, v |-> "exclude"],
     [k |-> <<"C","a","l","_","H","e","a","d","+","N","e","c","k","_","4","0">>, v |-> "exclude"],
     [k |-> <<"a","c","t","_","t","e","_","=","_","6","0","0","0","_","B","1","-","C","a","l","i","b","r","a","t","i","o","n","_","B","o","d","y">>, v |-> "exclude"],
     [k |-> <<"a","c","t","_","t","e","_","=","_","6","0","0","0","_","B","1","-","C","a","l","i","b","r","a","t","i","o","n","_","P","A">>, v |-> "exclude"],
     [k |-> <<"L","o","c","a","l","i","z","e","r">>, v |-> "exclude"],
     [k |-> <<"L","o","c","a","l","i","z","e","r","_","M","P","R","_","s","a","g">>, v |-> "exclude"] >>

\* a faulty variant of suffix_mapping: a key of the primary table (of modality
\* anat) is given a suffix in the sub-table of func
suffix_mapping_Contradictory ==
  << [c |-> "anat", k |-> <<"d","e","f","a","u","l","t">>, v |-> "T1w"],
     [c |-> "func", k |-> <<"M","P","R","A","G","E">>, v |-> "task-rest_bold"],
     [c |-> "func", k |-> <<"d","e","f","a","u","l","t">>, v |-> "task-rest_bold"],
     [c |-> "dwi", k |-> <<"d","e","f","a","u","l","t">>, v |-> "dwi"],
     [c |-> "fmap", k |-> <<"d","e","f","a","u","l","t">>, v |-> "fieldmap"],
     [c |-> "perf", k |-> <<"d","e","f","a","u","l","t">>, v |-> "asl"] >>

\* self.suffix_mapping: one row per (modality c, key k) with its suffix v
suffix_mapping ==
  << [c |-> "anat", k |-> <<"M","P","R","A","G","E">>, v |-> "T1w"],
     [c |-> "anat", k |-> <<"M","P","-","R","A","G","E">>, v |-> "T1w"],
     [c |-> "anat", k |-> <<"A","c","c","e","l","e","r","a","t","e","d","_","S","a","g","i","t","t","a","l","_","M","P","R","A","G","E">>, v |-> "T1w"],
     [c |-> "anat", k |-> <<"A","c","c","e","l","e","r","a","t","e","d","_","S","a","g","i","t","t","a","l","_","M","P","R","A","G","E","_","_","M","S","V","2","1","_">>, v |-> "T1w"],
     [c |-> "anat", k |-> <<"A","c","c","e","l","e","r","a","t","e","d","_","S","a","g","i","t","t","a","l","_","M","P","R","A","G","E","_","_","M","S","V","2","2","_">>, v |-> "T1w"],
     [c |-> "anat", k |-> <<"A","c","c","e","l","e","r","a","t","e","d","_","S","a","g","i","t","t","a","l","_","M","P","R","A","G","E","_","N","D">>, v |-> "T1w"],
     [c |-> "anat", k |-> <<"S","a","g","i","t","t","a","l","_","3","D","_","A","c","c","e","l","e","r","a","t","e","d","_","M","P","R","A","G","E">>, v |-> "T1w"],
     [c |-> "anat", k |-> <<"M","P","R","A","G","E","_","G","R","A","P","P","A","2">>, v |-> "T1w"],
     [c |-> "anat", k |-> <<"M","P","R","A","G","E","_","S","E","N","S","E","2">>, v |-> "T1w"],
     [c |-> "anat", k |-> <<"A","c","c","e","l","e","r","a","t","e","d","_","S","a","g","_","I","R","-","F","S","P","G","R">>, v |-> "T1w"],
     [c |-> "anat", k |-> <<"A","c","c","e","l","e","r","a","t","e","d","_","S","a","g","i","t","t","a","l","_","I","R","-","F","S","P","G","R">>, v |-> "T1w"],
     [c |-> "anat", k |-> <<"S","a","g","_","I","R","-","F","S","P","G","R">>, v |-> "T1w"],
     [c |-> "anat", k |-> <<"S","a","g","_","I","R","-","S","P","G","R">>, v |-> "T1w"],
     [c |-> "anat", k |-> <<"A","c","c","e","l","e","r","a","t","e","d","_","S","a","g","_","I","R","-","S","P","G","R">>, v |-> "T1w"],
     [c |-> "anat", k |-> <<"M","P","-","R","A","G","E","_","R","E","P","E","A","T">>, v |-> "T1w"],
     [c |-> "anat", k |-> <<"I","R","-","F","S","P","G","R","-","R","e","p","e","a","t">>, v |-> "T1w"],
     [c |-> "anat", k |-> <<"I","R","-","F","S","P","G","R">>, v |-> "T1w"],
     [c |-> "anat", k |-> <<"I","R","-","S","P","G","R">>, v |-> "T1w"],
     [c |-> "anat", k |-> <<"S","a","g","i","t","t","a","l","_","3","D","_","F","L","A","I","R">>, v |-> "FLAIR"],
     [c |-> "anat", k |-> <<"S","a","g","i","t","t","a","l","_","3","D","_","F","L","A","I","R","_","_","M","S","V","2","2","_">>, v |-> "FLAIR"],
     [c |-> "anat", k |-> <<"S","a","g","i","t","t","a","l","_","3","D","_","F","L","A","I","R","_","_","M","S","V","2","3","_">>, v |-> "FLAIR"],
     [c |-> "anat", k |-> <<"A","x","i","a","l","_","F","L","A","I","R">>, v |-> "FLAIR"],
     [c |-> "anat", k |-> <<"A","X","I","A","L","_","F","L","A","I","R">>, v |-> "FLAIR"],
     [c |-> "anat", k |-> <<"F","L","A","I","R">>, v |-> "FLAIR"],
     [c |-> "anat", k |-> <<"t","2","_","f","l","a","i","r","_","S","A","G">>, v |-> "FLAIR"],
     [c |-> "anat", k |-> <<"A","x","i","a","l","_","3","D","_","F","L","A","I","R">>, v |-> "FLAIR"],
     [c |-> "anat", k |-> <<"S","a","g","i","t","t","a","l","_","3","D","_","T","2","_","S","P","A","C","E","_","_","M","S","V","2","1","_">>, v |-> "T2w"],
     [c |-> "anat", k |-> <<"S","a","g","i","t","t","a","l","_","3","D","_","T","2","_","V","i","s","t","a","_","_","M","S","V","2","1","_">>, v |-> "T2w"],
     [c |-> "anat", k |-> <<"C","S","_","S","a","g","i","t","t","a","l","_","3","D","_","T","2","_","V","i","s","t","a","_","_","M","S","V","2","4","_">>, v |-> "T2w"],
     [c |-> "anat", k |-> <<"S","a","g","i","t","t","a","l","_","3","D","_","T","2","_","S","P","A","C","E","_","M","S","V","2","1">>, v |-> "T2w"],
     [c |-> "anat", k |-> <<"d","e","f","a","u","l","t">>, v |-> "T1w"],
     [c |-> "func", k |-> <<"d","e","f","a","u","l","t">>, v |-> "task-rest_bold"],
     [c |-> "dwi", k |-> <<"A","x","i","a","l","_","M","B","_","D","T","I","_","P","A","_","_","M","S","V","2","1","_">>, v |-> "dir-PA_dwi"],
     [c |-> "dwi", k |-> <<"A","x","i","a","l","_","M","B","_","D","T","I","_","A","P","_","_","M","S","V","2","1","_">>, v |-> "dir-AP_dwi"],
     [c |-> "dwi", k |-> <<"A","x","i","a","l","_","M","B","_","d","M","R","I","_","P","A","_","_","M","S","V","2","1","_">>, v |-> "dir-PA_dwi"],
     [c |-> "dwi", k |-> <<"A","x","i","a","l","_","M","B","_","d","M","R","I","_","A","P","_","_","M","S","V","2","1","_">>, v |-> "dir-AP_dwi"],
     [c |-> "dwi", k |-> <<"A","x","i","a","l","_","M","B","_","d","M","R","I","_","A","_","_","P","_","_","M","S","V","2","1","_">>, v |-> "dir-AP_dwi"],
     [c |-> "dwi", k |-> <<"A","x","i","a","l","_","M","B","_","d","M","R","I","_","P","_","_","A","_","_","M","S","V","2","1","_">>, v |-> "dir-PA_dwi"],
     [c |-> "dwi", k |-> <<"d","e","f","a","u","l","t">>, v |-> "dwi"],
     [c |-> "fmap", k |-> <<"d","e","f","a","u","l","t">>, v |-> "fieldmap"],
     [c |-> "perf", k |-> <<"d","e","f","a","u","l","t">>, v |-> "asl"] >>

-----------------------------------------------------------------------------
(* ADNI2BIDSConverter.map_modality_to_bids                                  *)

\* Python's None, as returned in the pair (None, None)
None == "None"

DefaultKey == <<"d","e","f","a","u","l","t">>

\* the position of name among the keys of self.modality_mapping, 0 when it is no key
KeyIndex(name) ==
    IF \E i \in 1..Len(modality_mapping) : modality_mapping[i].k = name
    THEN CHOOSE i \in 1..Len(modality_mapping) : modality_mapping[i].k = name
    ELSE 0

\* adni_name.upper(), for the key adni_name of each item of self.modality_mapping
adni_name_upper ==
    [i \in 1..Len(modality_mapping) |-> StrUpper(modality_mapping[i].k)]

\* adni_name.upper() in modality_upper or modality_upper in adni_name.upper(),
\* adni_name being the key of item i
PartialMatch(i, modality_upper) ==
    \/ StrIn(adni_name_upper[i], modality_upper)
    \/ StrIn(modality_upper, adni_name_upper[i])

\* a faulty variant of FallbackStep: the `continue` on 'exclude' is missing
FallbackStepNoSkip(modality_upper, i) ==
    IF PartialMatch(i, modality_upper)
    THEN modality_mapping[i].v
    ELSE None

\* One iteration of the loop over self.modality_mapping.items(), at item i:
\* `continue` on 'exclude', the item's modality on a match (the `break`),
\* None when the iteration leaves bids_modality unset.
FallbackStep(modality_upper, i) ==
    IF modality_mapping[i].v = "exclude" THEN None
    ELSE IF PartialMatch(i, modality_upper)
         THEN modality_mapping[i].v
    ELSE None

\* a faulty variant of FallbackScanRange: the last matching item wins, not the first
RECURSIVE FallbackScanRangeLast(_, _, _)
FallbackScanRangeLast(modality_upper, lo, hi) ==
    IF lo > hi THEN None
    ELSE IF lo = hi THEN FallbackStep(modality_upper, lo)
    ELSE LET mid == (lo + hi) \div 2
             secondHalf == FallbackScanRangeLast(modality_upper, mid + 1, hi)
         IN  IF secondHalf # None THEN secondHalf
             ELSE FallbackScanRangeLast(modality_upper, lo, mid)

\* The iterations at items lo..hi, in table order, up to the first `break`:
\* the items after a hit are not looked at.  (The range is halved so that the
\* depth of the evaluation stays logarithmic in the size of the table.)
RECURSIVE FallbackScanRange(_, _, _)
FallbackScanRange(modality_upper, lo, hi) ==
    IF lo > hi THEN None
    ELSE IF lo = hi THEN FallbackStep(modality_upper, lo)
    ELSE LET mid == (lo + hi) \div 2
             firstHalf == FallbackScanRange(modality_upper, lo, mid)
         IN  IF firstHalf # None THEN firstHalf
             ELSE FallbackScanRange(modality_upper, mid + 1, hi)

\* "Try partial matching for unknown variants": bids_modality after the loop
FallbackScan(name) ==
    FallbackScanRange(StrUpper(name), 1, Len(modality_mapping))

\* bids_modality in self.suffix_mapping
HasSuffixMap(bids_modality) ==
    \E r \in 1..Len(suffix_mapping) : suffix_mapping[r].c = bids_modality

\* key in self.suffix_mapping[bids_modality]
InSuffixMap(bids_modality, key) ==
    \E r \in 1..Len(suffix_mapping) :
        suffix_mapping[r].c = bids_modality /\ suffix_mapping[r].k = key

\* self.suffix_mapping[bids_modality][key]
SuffixOf(bids_modality, key) ==
    suffix_mapping[CHOOSE r \in 1..Len(suffix_mapping) :
        suffix_mapping[r].c = bids_modality /\ suffix_mapping[r].k = key].v

\* a faulty variant of DetermineSuffix: the exact lookup in the sub-table is missing
DetermineSuffixDefaultOnly(bids_modality, name) ==
    IF HasSuffixMap(bids_modality) /\ InSuffixMap(bids_modality, DefaultKey)
    THEN [suffix |-> SuffixOf(bids_modality, DefaultKey), warned |-> FALSE]
    ELSE [suffix |-> "unknown", warned |-> TRUE]

\* "Determine BIDS suffix": the returned suffix and whether the
\* "No suffix mapping" warning is logged
DetermineSuffix(bids_modality, name) ==
    IF HasSuffixMap(bids_modality) /\ InSuffixMap(bids_modality, name)
    THEN [suffix |-> SuffixOf(bids_modality, name), warned |-> FALSE]
    ELSE IF HasSuffixMap(bids_modality) /\ InSuffixMap(bids_modality, DefaultKey)
    THEN [suffix |-> SuffixOf(bids_modality, DefaultKey), warned |-> FALSE]
    ELSE [suffix |-> "unknown", warned |-> TRUE]

\* a faulty variant of map_modality_to_bids: 'exclude' is treated as a category
map_modality_to_bids_NoExclude(name) ==
    IF KeyIndex(name) # 0
    THEN LET bids_modality == modality_mapping[KeyIndex(name)].v
             s == DetermineSuffix(bids_modality, name)
         IN  [modality |-> bids_modality, suffix |-> s.suffix,
              fallback |-> FALSE, warned |-> s.warned]
    ELSE [modality |-> "other", suffix |-> "unknown", fallback |-> TRUE, warned |-> TRUE]

\* One call of map_modality_to_bids: the pair returned (modality, suffix),
\* whether the partial-matching loop was run (fallback) and whether a warning
\* was logged (warned).
map_modality_to_bids(name) ==
    IF KeyIndex(name) # 0
    THEN LET bids_modality == modality_mapping[KeyIndex(name)].v
             s == DetermineSuffix(bids_modality, name)
         IN  IF bids_modality = "exclude"
             THEN [modality |-> None, suffix |-> None,
                   fallback |-> FALSE, warned |-> FALSE]
             ELSE [modality |-> bids_modality, suffix |-> s.suffix,
                   fallback |-> FALSE, warned |-> s.warned]
    ELSE LET bids_modality == FallbackScan(name)
             s == DetermineSuffix(bids_modality, name)
         IN  IF bids_modality = None
             THEN [modality |-> "other", suffix |-> "unknown",
                   fallback |-> TRUE, warned |-> TRUE]
             ELSE [modality |-> bids_modality, suffix |-> s.suffix,
                   fallback |-> TRUE, warned |-> s.warned]

-----------------------------------------------------------------------------
(* Calling map_modality_to_bids: the inputs and the specification.          *)

\* the longest generated directory name
MaxNameLen == 2
\* how many times the classifier is called on one name
MaxCalls == 2

\* the characters the generated names are made of
NameAlphabet == {"T", "1", "D", "_", "k", "q"}

\* every name of 1..MaxNameLen characters over NameAlphabet
ShortNames == UNION {[1..n -> NameAlphabet] : n \in 1..MaxNameLen}

\* the keys of self.modality_mapping
TableKeys == {modality_mapping[i].k : i \in 1..Len(modality_mapping)}

\* directory names seen in no table: new variants of known protocols, names
\* that only resemble an excluded protocol, and unknown protocols
VariantNames ==
    { <<"S","o","m","e","_","T","o","t","a","l","l","y","_","N","o","v","e","l","_",
        "S","e","q","u","e","n","c","e","_","2","0","2","4">>,
      <<"m","p","r","a","g","e">>,
      <<"M","P","R","A","G","E","_","v","2">>,
      <<"f","l","a","i","r">>,
      <<"A","x","i","a","l">>,
      <<"A","x","i","a","l","_","D","T","I","_","v","2">>,
      <<"A","x","i","a","l","_","M","B","_","D","T","I","_","F","A","_","2">>,
      <<"A","x","i","a","l","_","M","B","_","D","T","I","_","P","A">>,
      <<"F","i","e","l","d","_","M","a","p","p","i","n","g","_","2">>,
      <<"P","A","S","L">>,
      <<"f","M","R","I">>,
      <<"S","c","o","u","t">>,
      <<"L","o","c","a","l","i","z","e","r","_","2">>,
      <<"C","a","l","i","b","r","a","t","i","o","n">>,
      <<"r","e","l","C","B","F","_","2">>,
      <<"d","e","f","a","u","l","t">>,
      <<"T","2","_","S","t","a","r">>,
      <<"S","W","I">> }

ModalityNames == TableKeys \cup VariantNames \cup ShortNames

\* the variables of the other programs, at rest
planVars == << issues, bi, gi >>
execVars == << dry_run, fs0, ei, success_count, error_count, errors, run, first >>
runVars == << mode, subjects, tree, si, sessions, di, subject_success, subject_results,
             exit_code >>
convertVars == << subject_id, session_date, session_data, source_state, ai, success,
                 conversion_count, invocations, made_dirs, log, runVars >>

RestClassify == modality_dir = <<>> /\ results = <<>>
RestDisk == fs = {} /\ dirs = {} /\ rename_plan = <<>>
RestPlan == issues = <<>> /\ bi = 0 /\ gi = 0
RestExec ==
    /\ dry_run = TRUE /\ fs0 = {} /\ ei = 0 /\ success_count = 0
    /\ error_count = 0 /\ errors = <<>> /\ run = 0 /\ first = <<>>
RestRun ==
    /\ mode = "batch" /\ subjects = <<>> /\ tree = <<>> /\ si = 0 /\ sessions = <<>>
    /\ di = 0 /\ subject_success = TRUE /\ subject_results = <<>> /\ exit_code = None
RestConvert ==
    /\ subject_id = <<>> /\ session_date = <<>> /\ session_data = <<>>
    /\ source_state = <<>> /\ ai = 0 /\ success = TRUE /\ conversion_count = 0
    /\ invocations = <<>> /\ made_dirs = {} /\ log = <<>>
    /\ RestRun

InitClassify ==
    /\ pc = "classify"
    /\ modality_dir \in ModalityNames
    /\ results = <<>>
    /\ RestDisk /\ RestPlan /\ RestExec /\ RestConvert

\* one call converter.map_modality_to_bids(modality_dir)
MapModalityToBids ==
    /\ pc = "classify"
    /\ Len(results) < MaxCalls
    /\ results' = Append(results, map_modality_to_bids(modality_dir))
    /\ UNCHANGED << pc, modality_dir, fs, dirs, rename_plan, planVars, execVars, convertVars >>

NextClassify == MapModalityToBids

SpecClassify == InitClassify /\ [][NextClassify]_vars


-----------------------------------------------------------------------------
(* Properties of the classifier (SpecClassify).                             *)

\* the call has returned at least once
Classified == Len(results) >= 1

\* a and b are in a substring relation, case ignored
SubstringRelated(a, b) ==
    \/ StrIn(StrUpper(a), StrUpper(b))
    \/ StrIn(StrUpper(b), StrUpper(a))

\* the items of self.modality_mapping that are not 'exclude' and are in a
\* substring relation, after upper(), with name
MatchingItems(name) ==
    {i \in 1..Len(modality_mapping) :
        /\ modality_mapping[i].v # "exclude"
        /\ SubstringRelated(modality_mapping[i].k, name)}

\* the least element of a non-empty set of indexes
MinIndex(S) == CHOOSE i \in S : \A j \in S : i <= j

\* C2: for a name that is no key of the primary table, the fallback never
\* returns the modality of an 'exclude' key (neither 'exclude' nor None), and
\* when some non-excluded key is in a substring relation with the name the
\* modality returned is that of the first such key in table order, whatever
\* keys match later in the table.
C2_FallbackFirstMatch ==
    (Classified /\ modality_dir \notin TableKeys) =>
        /\ results[1].fallback
        /\ results[1].modality \notin {"exclude", None}
        /\ MatchingItems(modality_dir) # {} =>
              results[1].modality =
                  modality_mapping[MinIndex(MatchingItems(modality_dir))].v

\* C2 witness: an unmapped name was classified for which a later, longer key
\* of another modality matches too, and for which an 'exclude' key matches
C2_Witness ==
    /\ Classified
    /\ modality_dir \notin TableKeys
    /\ \E i, j \in MatchingItems(modality_dir) :
          /\ i < j
          /\ Len(modality_mapping[j].k) > Len(modality_mapping[i].k)
          /\ modality_mapping[j].v # modality_mapping[i].v
          /\ results[1].modality = modality_mapping[i].v
    /\ \E e \in 1..Len(modality_mapping) :
          /\ modality_mapping[e].v = "exclude"
          /\ SubstringRelated(modality_mapping[e].k, modality_dir)

\* C3: for a key of the primary table of modality c other than 'exclude' the
\* call returns (c, s), s being the key's own entry of c's suffix sub-table
\* when it has one and the sub-table's 'default' entry otherwise; the partial
\* matching is not run; every call returns the same pair; and
\* Axial_MB_DTI_PA__MSV21_ gives (dwi, dir-PA_dwi).
C3_ExactMatch ==
    \A i \in 1..Len(modality_mapping) :
        (Classified /\ modality_mapping[i].k = modality_dir
                    /\ modality_mapping[i].v # "exclude") =>
            /\ results[1].modality = modality_mapping[i].v
            /\ ~ results[1].fallback
            /\ \A r \in 1..Len(suffix_mapping) :
                  (suffix_mapping[r].c = modality_mapping[i].v) =>
                      /\ suffix_mapping[r].k = modality_dir =>
                            results[1].suffix = suffix_mapping[r].v
                      /\ ( /\ suffix_mapping[r].k = DefaultKey
                           /\ ~ \E q \in 1..Len(suffix_mapping) :
                                  /\ suffix_mapping[q].c = modality_mapping[i].v
                                  /\ suffix_mapping[q].k = modality_dir ) =>
                            results[1].suffix = suffix_mapping[r].v
            /\ \A n \in 1..Len(results) :
                  << results[n].modality, results[n].suffix >> =
                  << results[1].modality, results[1].suffix >>
            /\ modality_dir = <<"A","x","i","a","l","_","M","B","_","D","T","I","_",
                                "P","A","_","_","M","S","V","2","1","_">> =>
                  << results[1].modality, results[1].suffix >> = << "dwi", "dir-PA_dwi" >>

\* C3 witness: Axial_MB_DTI_PA__MSV21_ was classified twice
C3_Witness ==
    /\ Len(results) = 2
    /\ modality_dir = <<"A","x","i","a","l","_","M","B","_","D","T","I","_",
                        "P","A","_","_","M","S","V","2","1","_">>
    /\ results[2].suffix = "dir-PA_dwi"

\* the modalities and suffixes the tables hold
TableModalities == {modality_mapping[i].v : i \in 1..Len(modality_mapping)} \ {"exclude"}
TableSuffixes == {suffix_mapping[r].v : r \in 1..Len(suffix_mapping)}

\* C5: a name that is no table key and is in no substring relation (either
\* direction, case-insensitive) with a non-excluded key gives (other, unknown);
\* and whatever the name, the call returns a pair: (None, None), a modality
\* with a suffix, or (other, unknown).
C5_UnknownAndTotal ==
    Classified =>
        /\ (modality_dir \notin TableKeys /\ MatchingItems(modality_dir) = {}) =>
              << results[1].modality, results[1].suffix >> = << "other", "unknown" >>
        /\ \/ << results[1].modality, results[1].suffix >> = << None, None >>
           \/ << results[1].modality, results[1].suffix >> = << "other", "unknown" >>
           \/ /\ results[1].modality \in TableModalities
              /\ results[1].suffix \in TableSuffixes \cup {"unknown"}

\* C5 witness: Some_Totally_Novel_Sequence_2024 was classified (other, unknown)
C5_Witness ==
    /\ Classified
    /\ modality_dir = <<"S","o","m","e","_","T","o","t","a","l","l","y","_","N","o","v",
                        "e","l","_","S","e","q","u","e","n","c","e","_","2","0","2","4">>
    /\ results[1].modality = "other"
    /\ results[1].warned

\* C17: every key other than 'default' of the suffix sub-table of a category
\* c is a key of the primary table, mapped there to c (the tables are the
\* same in every state of the classifier).
C17_SuffixKeysInPrimary ==
    pc = "classify" =>
        \A r \in 1..Len(suffix_mapping) :
            suffix_mapping[r].k # DefaultKey =>
                \E i \in 1..Len(modality_mapping) :
                    /\ modality_mapping[i].k = suffix_mapping[r].k
                    /\ modality_mapping[i].v = suffix_mapping[r].c

\* C17 witness: a name with an entry of its own in a suffix sub-table has
\* been classified, into the category of that sub-table
C17_Witness ==
    /\ Classified
    /\ \E r \in 1..Len(suffix_mapping) :
          /\ suffix_mapping[r].k = modality_dir
          /\ suffix_mapping[r].k # DefaultKey
          /\ suffix_mapping[r].c = "dwi"
          /\ results[1].modality = suffix_mapping[r].c

-----------------------------------------------------------------------------
(* More str and pathlib operations, used by fix_bids_naming.py.             *)

\* s.find(t, i - 1) + 1: the position of the first occurrence of t in s at
\* or after position i, 0 when there is none
RECURSIVE FindFrom(_, _, _)
FindFrom(t, s, i) ==
    IF i + Len(t) - 1 > Len(s) THEN 0
    ELSE IF OccursAt(t, s, i) THEN i
    ELSE FindFrom(t, s, i + 1)

\* s.split(sep)[0]
SplitFirst(s, sep) ==
    IF FindFrom(sep, s, 1) = 0 THEN s ELSE SubSeq(s, 1, FindFrom(sep, s, 1) - 1)

\* s.replace(old, new): every occurrence, left to right, not overlapping
\* (old is never empty at the call sites)
RECURSIVE StrReplace(_, _, _)
StrReplace(s, old, new) ==
    LET i == IF old = <<>> THEN 0 ELSE FindFrom(old, s, 1)
    IN  IF i = 0 THEN s
        ELSE SubSeq(s, 1, i - 1) \o new
                \o StrReplace(SubSeq(s, i + Len(old), Len(s)), old, new)

\* the position of the last "/" of a path, 0 when it has none
LastSlash(p) ==
    IF \E i \in 1..Len(p) : p[i] = "/"
    THEN CHOOSE i \in 1..Len(p) : p[i] = "/" /\ \A j \in (i + 1)..Len(p) : p[j] # "/"
    ELSE 0

\* Path(p).name and os.path.basename(p)
PathName(p) == SubSeq(p, LastSlash(p) + 1, Len(p))

\* str(Path(p).parent) and os.path.dirname(p), for a path "<directory>/<name>"
PathParent(p) == SubSeq(p, 1, LastSlash(p) - 1)

\* str(directory / name)
PathJoin(directory, name) == directory \o <<"/">> \o name

NiiGz == <<".","n","i","i",".","g","z">>
Json == <<".","j","s","o","n">>
T1w == <<"T","1","w">>

Digits == <<"0","1","2","3","4","5","6","7","8","9">>

\* str(n) for n >= 0
RECURSIVE Decimal(_)
Decimal(n) ==
    IF n < 10 THEN << Digits[n + 1] >>
    ELSE Decimal(n \div 10) \o << Digits[(n % 10) + 1] >>

\* a faulty variant of Format02d: no zero padding
Format02dNoPad(i) == Decimal(i)

\* f"{i:02d}": at least two digits, zero-padded
Format02d(i) == IF i < 10 THEN <<"0">> \o Decimal(i) ELSE Decimal(i)

\* the characters of the suffixes, in code point order (ord)
CodePointOrder == Digits \o Upper \o <<"_">> \o Lower
Ord(c) == CHOOSE i \in 1..Len(CodePointOrder) : CodePointOrder[i] = c

\* s < t for two str: the first differing character decides, a proper prefix is less
StrLess(s, t) ==
    \E i \in 1..(Len(t)) :
        /\ \A j \in 1..(i - 1) : j <= Len(s) /\ s[j] = t[j]
        /\ \/ i = Len(s) + 1
           \/ i <= Len(s) /\ Ord(s[i]) < Ord(t[i])

-----------------------------------------------------------------------------
(* plan_renames                                                             *)

\* a faulty variant of InsertBySuffix: descending order of suffix
InsertBySuffixDesc(sorted, f) ==
    LET before == SelectSeq(sorted, LAMBDA g : ~ StrLess(g.suffix, f.suffix))
        after == SelectSeq(sorted, LAMBDA g : StrLess(g.suffix, f.suffix))
    IN  before \o << f >> \o after

\* f put into a list sorted by suffix: after every element whose suffix is
\* not greater (sorted() is stable)
InsertBySuffix(sorted, f) ==
    LET before == SelectSeq(sorted, LAMBDA g : ~ StrLess(f.suffix, g.suffix))
        after == SelectSeq(sorted, LAMBDA g : StrLess(f.suffix, g.suffix))
    IN  before \o << f >> \o after

\* sorted(file_list, key=lambda x: x['suffix'])
RECURSIVE SortBySuffix(_)
SortBySuffix(file_list) ==
    IF file_list = <<>> THEN <<>>
    ELSE InsertBySuffix(SortBySuffix(SubSeq(file_list, 1, Len(file_list) - 1)),
                        file_list[Len(file_list)])

\* the keys of by_base_name, in insertion order: the base names of files in
\* the order of their first occurrence
RECURSIVE BaseNames(_)
BaseNames(files) ==
    IF files = <<>> THEN <<>>
    ELSE LET rest == BaseNames(SubSeq(files, 1, Len(files) - 1))
             b == files[Len(files)].base_name
         IN  IF \E i \in 1..Len(rest) : rest[i] = b THEN rest ELSE Append(rest, b)

\* by_base_name[base_name]
FilesOfBase(files, base_name) ==
    SelectSeq(files, LAMBDA f : f.base_name = base_name)

\* one dict appended to rename_plan
PlanEntry(old_path, new_path, old_filename, new_filename, item, base_name, old_suffix, new_suffix) ==
    [old_path |-> old_path, new_path |-> new_path,
     old_filename |-> old_filename, new_filename |-> new_filename,
     subject |-> item.subject, session |-> item.session, modality |-> item.modality,
     base_name |-> base_name, old_suffix |-> old_suffix, new_suffix |-> new_suffix]

\* subject_session of the group, from the name of its first sorted file
SubjectSession(name, base_name) ==
    IF StrIn(T1w, name) THEN SplitFirst(name, <<"_">> \o T1w)
    ELSE SplitFirst(name, <<"_">> \o base_name)

\* base_file_path: the unsuffixed file the planner looks for
BaseFilePath(sorted_files, base_name) ==
    LET sample_path == sorted_files[1].full_path
    IN  PathJoin(PathParent(sample_path),
                 SubjectSession(PathName(sample_path), base_name)
                    \o <<"_">> \o base_name \o NiiGz)

\* "If base file exists, add it to rename plan as _01", with its JSON file
\* when that exists
BaseEntries(item, base_name, sorted_files, exists) ==
    LET base_file_path == BaseFilePath(sorted_files, base_name)
        directory == PathParent(sorted_files[1].full_path)
        base_filename == PathName(base_file_path)
        base_new_filename ==
            SubjectSession(PathName(sorted_files[1].full_path), base_name)
                \o <<"_">> \o base_name \o <<"_","0","1">> \o NiiGz
        base_new_path == PathJoin(directory, base_new_filename)
        base_json_path == StrReplace(base_file_path, NiiGz, Json)
    IN  IF base_file_path \in exists
        THEN << PlanEntry(base_file_path, base_new_path, base_filename,
                          base_new_filename, item, base_name, <<>>, <<"0","1">>) >>
             \o (IF base_json_path \in exists
                 THEN << PlanEntry(base_json_path,
                                   StrReplace(base_new_path, NiiGz, Json),
                                   StrReplace(base_filename, NiiGz, Json),
                                   StrReplace(base_new_filename, NiiGz, Json),
                                   item, base_name, <<>>, <<"0","1">>) >>
                 ELSE <<>>)
        ELSE <<>>

\* a faulty variant of StartNum: the numbering of the lettered files always starts at 01
StartNumAlwaysOne(base_file_exists) == IF base_file_exists THEN 1 ELSE 1

\* start_num: "from 02 if base exists, otherwise from 01"
StartNum(base_file_exists) == IF base_file_exists THEN 2 ELSE 1

\* a faulty variant of MemberEntries: the JSON entry keeps the letter in its new name
MemberEntriesJsonKept(item, base_name, file_info, i, exists) ==
    LET old_path == file_info.full_path
        old_filename == file_info.filename
        base_part == StrReplace(old_filename, base_name \o file_info.suffix, base_name)
        new_filename == StrReplace(base_part, <<"_">> \o base_name \o NiiGz,
                            <<"_">> \o base_name \o <<"_">> \o Format02d(i) \o NiiGz)
        new_path == PathJoin(PathParent(old_path), new_filename)
        json_old_path == StrReplace(old_path, NiiGz, Json)
    IN  << PlanEntry(old_path, new_path, old_filename, new_filename, item,
                     base_name, file_info.suffix, Format02d(i)) >>
        \o (IF json_old_path \in exists
            THEN << PlanEntry(json_old_path, json_old_path,
                              PathName(json_old_path), PathName(json_old_path),
                              item, base_name, file_info.suffix, Format02d(i)) >>
            ELSE <<>>)

\* one iteration of `for i, file_info in enumerate(sorted_files, start_num)`:
\* the entry of the file and, when its JSON file exists, the entry of that
MemberEntries(item, base_name, file_info, i, exists) ==
    LET old_path == file_info.full_path
        old_filename == file_info.filename
        base_part == StrReplace(old_filename, base_name \o file_info.suffix, base_name)
        new_filename == StrReplace(base_part, <<"_">> \o base_name \o NiiGz,
                            <<"_">> \o base_name \o <<"_">> \o Format02d(i) \o NiiGz)
        new_path == PathJoin(PathParent(old_path), new_filename)
        json_old_path == StrReplace(old_path, NiiGz, Json)
        json_new_path == StrReplace(new_path, NiiGz, Json)
    IN  << PlanEntry(old_path, new_path, old_filename, new_filename, item,
                     base_name, file_info.suffix, Format02d(i)) >>
        \o (IF json_old_path \in exists
            THEN << PlanEntry(json_old_path, json_new_path,
                              PathName(json_old_path), PathName(json_new_path),
                              item, base_name, file_info.suffix, Format02d(i)) >>
            ELSE <<>>)

\* the iterations of that loop from the k-th sorted file on
RECURSIVE MemberLoop(_, _, _, _, _, _)
MemberLoop(item, base_name, sorted_files, k, start_num, exists) ==
    IF k > Len(sorted_files) THEN <<>>
    ELSE MemberEntries(item, base_name, sorted_files[k], start_num + k - 1, exists)
         \o MemberLoop(item, base_name, sorted_files, k + 1, start_num, exists)

\* the body of `for base_name, file_list in by_base_name.items()`: what one
\* base name appends to rename_plan
GroupEntries(item, base_name, exists) ==
    LET sorted_files == SortBySuffix(FilesOfBase(item.files, base_name))
        base_file_exists == BaseFilePath(sorted_files, base_name) \in exists
    IN  BaseEntries(item, base_name, sorted_files, exists)
        \o MemberLoop(item, base_name, sorted_files, 1,
                      StartNum(base_file_exists), exists)

-----------------------------------------------------------------------------
(* Running plan_renames: the inputs and the specification.                  *)

\* the most file descriptors in the first (subject, session, modality) list
MaxFiles == 3

\* file_info of the file <directory>/<prefix>_<base_name><letter>.nii.gz as
\* the analysis step reports it
FileInfo(directory, prefix, base_name, letter) ==
    LET filename == prefix \o <<"_">> \o base_name \o letter \o NiiGz
    IN  [full_path |-> PathJoin(directory, filename), filename |-> filename,
         suffix |-> letter, base_name |-> base_name]

\* The files that may be reported for the first list, all in directory "d"
\* and all named after the same subject and session "s": the lettered runs
\* s_Fa, s_Fb, s_Fc of base name F, a lettered run of a base name that is
\* itself numbered (F_01), and a lettered run of T1w.
Candidates ==
    { FileInfo(<<"d">>, <<"s">>, <<"F">>, <<"a">>),
      FileInfo(<<"d">>, <<"s">>, <<"F">>, <<"b">>),
      FileInfo(<<"d">>, <<"s">>, <<"F">>, <<"c">>),
      FileInfo(<<"d">>, <<"s">>, <<"F","_","0","1">>, <<"a">>),
      FileInfo(<<"d">>, <<"s">>, T1w, <<"a">>) }

\* the lists of 1..MaxFiles reported files, no file reported twice
FileLists ==
    {l \in UNION {[1..n -> Candidates] : n \in 1..MaxFiles} :
        \A i, j \in 1..Len(l) : l[i].full_path = l[j].full_path => i = j}

\* the lists that may be reported for a second session, in directory "e"
SecondFileLists ==
    { << FileInfo(<<"e">>, <<"s">>, <<"F">>, <<"b">>),
         FileInfo(<<"e">>, <<"s">>, <<"F">>, <<"a">>) >> }

\* issues, flattened: one item per list issues[subject][session][modality],
\* in the order the three nested loops visit them
IssuesInputs ==
    LET item1(l) == [subject |-> "027S6512", session |-> "ses-1", modality |-> "anat", files |-> l]
        item2(l) == [subject |-> "027S6512", session |-> "ses-2", modality |-> "anat", files |-> l]
    IN  {<< item1(l) >> : l \in FileLists}
        \cup {<< item1(l), item2(m) >> : l \in FileLists, m \in SecondFileLists}

\* the files reported in an issues input
ReportedPaths(iss) ==
    UNION {{iss[b].files[k].full_path : k \in 1..Len(iss[b].files)} : b \in 1..Len(iss)}

\* the unsuffixed volume a reported file is a run of
UnsuffixedOf(f) ==
    PathJoin(PathParent(f.full_path),
             SubSeq(f.filename, 1, Len(f.filename) - Len(f.suffix) - Len(NiiGz)) \o NiiGz)

UnsuffixedPaths(iss) ==
    UNION {{UnsuffixedOf(iss[b].files[k]) : k \in 1..Len(iss[b].files)} : b \in 1..Len(iss)}

\* the character of the path of a volume that precedes .nii.gz
LetterOf(v) == v[Len(v) - Len(NiiGz)]

\* The disks plan_renames may run on: the reported files exist, any of their
\* unsuffixed volumes may, and the JSON sidecars exist of the unsuffixed
\* volumes (unsuffixedJson) and of the volumes of run a (aJson).
Disks(iss) ==
    {LET volumes == ReportedPaths(iss) \cup bases
         withJson == {v \in volumes :
                        \/ v \in bases /\ unsuffixedJson
                        \/ v \notin bases /\ LetterOf(v) = "a" /\ aJson}
     IN  volumes \cup {StrReplace(v, NiiGz, Json) : v \in withJson}
       : bases \in SUBSET UnsuffixedPaths(iss),
         unsuffixedJson \in BOOLEAN, aJson \in BOOLEAN}

InitPlan ==
    /\ pc = "plan"
    /\ issues \in IssuesInputs
    /\ fs \in Disks(issues)
    /\ dirs = {PathParent(p) : p \in fs}
    /\ rename_plan = <<>>
    /\ bi = 1
    /\ gi = 1
    /\ RestClassify /\ RestExec /\ RestConvert

\* One iteration of `for base_name, file_list in by_base_name.items()`, for
\* the gi-th base name of the bi-th list: its entries are appended to
\* rename_plan; then the next base name, or the next list.
PlanGroup ==
    /\ pc = "plan"
    /\ bi <= Len(issues)
    /\ LET item == issues[bi]
           names == BaseNames(item.files)
       IN  /\ rename_plan' = rename_plan \o GroupEntries(item, names[gi], fs)
           /\ IF gi < Len(names)
              THEN gi' = gi + 1 /\ bi' = bi
              ELSE gi' = 1 /\ bi' = bi + 1
    /\ UNCHANGED << pc, issues, fs, dirs, modality_dir, results, execVars, convertVars >>

\* `return rename_plan`
PlanReturn ==
    /\ pc = "plan"
    /\ bi > Len(issues)
    /\ pc' = "planned"
    /\ UNCHANGED << issues, fs, dirs, rename_plan, bi, gi, modality_dir, results,
                    execVars, convertVars >>

NextPlan == PlanGroup \/ PlanReturn

SpecPlan == InitPlan /\ [][NextPlan]_vars

-----------------------------------------------------------------------------
(* Properties of the planner (SpecPlan).                                    *)

\* plan_renames has returned: rename_plan is the plan it produced
Planned == pc = "planned"

EndsWith(s, t) == Len(s) >= Len(t) /\ SubSeq(s, Len(s) - Len(t) + 1, Len(s)) = t

\* the plan entries of volume files, and those of one path
VolumeEntries == {i \in 1..Len(rename_plan) : EndsWith(rename_plan[i].old_path, NiiGz)}
EntriesOf(path) == {i \in 1..Len(rename_plan) : rename_plan[i].old_path = path}

\* the base-name groups of the input: the list b and one of its base names n
InputGroups ==
    UNION {{<< b, issues[b].files[k].base_name >> : k \in 1..Len(issues[b].files)}
             : b \in 1..Len(issues)}

\* the members of a group, as positions in the input list
Members(g) == {k \in 1..Len(issues[g[1]].files) : issues[g[1]].files[k].base_name = g[2]}
Member(g, k) == issues[g[1]].files[k]

\* the members carry pairwise distinct single lowercase letters
DistinctLetters(g) ==
    /\ \A k \in Members(g) :
          /\ Len(Member(g, k).suffix) = 1
          /\ \E c \in 1..Len(Lower) : Lower[c] = Member(g, k).suffix[1]
    /\ \A k, l \in Members(g) : Member(g, k).suffix = Member(g, l).suffix => k = l

LetterIndex(f) == CHOOSE c \in 1..Len(Lower) : Lower[c] = f.suffix[1]

\* the place of member k in ascending letter order, from 1
LetterRank(g, k) ==
    1 + Cardinality({l \in Members(g) : LetterIndex(Member(g, l)) < LetterIndex(Member(g, k))})

\* a number below 100 written with exactly two digits
TwoDigits(r) == << Digits[(r \div 10) + 1], Digits[(r % 10) + 1] >>

\* the unsuffixed volume of a group: the name of its members without the letter
BaseVolume(g) == UnsuffixedOf(Member(g, CHOOSE k \in Members(g) : TRUE))

\* the entry i belongs to group g
InGroup(i, g) ==
    /\ rename_plan[i].subject = issues[g[1]].subject
    /\ rename_plan[i].session = issues[g[1]].session
    /\ rename_plan[i].modality = issues[g[1]].modality
    /\ rename_plan[i].base_name = g[2]

\* C6: in the returned plan, for a group whose members carry pairwise
\* distinct single lowercase letters and whose unsuffixed volume is not on
\* disk, every member has an entry, and it gives the k-th member in ascending
\* letter order the new suffix k written with two digits (a->01, b->02,
\* c->03), whatever the order of the input list.
C6_LettersToNumbers ==
    Planned =>
        \A g \in InputGroups :
            (DistinctLetters(g) /\ BaseVolume(g) \notin fs) =>
                \A k \in Members(g) :
                    /\ EntriesOf(Member(g, k).full_path) # {}
                    /\ \A i \in EntriesOf(Member(g, k).full_path) :
                          /\ InGroup(i, g)
                          /\ rename_plan[i].old_suffix = Member(g, k).suffix
                          /\ rename_plan[i].new_suffix = TwoDigits(LetterRank(g, k))

\* C6 witness: the list reports s_Fc, s_Fa, s_Fb in this order, s_F.nii.gz is
\* not on disk, and the plan gives c the suffix 03 and a the suffix 01
C6_Witness ==
    /\ Planned
    /\ Len(issues[1].files) = 3
    /\ issues[1].files[1].suffix = <<"c">> /\ issues[1].files[1].base_name = <<"F">>
    /\ issues[1].files[2].suffix = <<"a">> /\ issues[1].files[2].base_name = <<"F">>
    /\ issues[1].files[3].suffix = <<"b">> /\ issues[1].files[3].base_name = <<"F">>
    /\ BaseVolume(<< 1, <<"F">> >>) \notin fs
    /\ \E i, j \in 1..Len(rename_plan) :
          /\ rename_plan[i].old_path = issues[1].files[1].full_path
          /\ rename_plan[i].new_suffix = <<"0","3">>
          /\ rename_plan[j].old_path = issues[1].files[2].full_path
          /\ rename_plan[j].new_suffix = <<"0","1">>

\* C7: in the returned plan, for a group whose unsuffixed volume is on disk,
\* there is an entry for that volume with old suffix '' and new suffix 01, it
\* comes before the entry of every lettered member, and the k-th member in
\* ascending letter order has the new suffix k+1 written with two digits
\* (base->01, a->02, b->03).
C7_BaseFileFirst ==
    Planned =>
        \A g \in InputGroups :
            (DistinctLetters(g) /\ BaseVolume(g) \in fs) =>
                \E b \in EntriesOf(BaseVolume(g)) :
                    /\ InGroup(b, g)
                    /\ rename_plan[b].old_suffix = <<>>
                    /\ rename_plan[b].new_suffix = <<"0","1">>
                    /\ \A k \in Members(g) :
                          /\ EntriesOf(Member(g, k).full_path) # {}
                          /\ \A i \in EntriesOf(Member(g, k).full_path) :
                                /\ b < i
                                /\ rename_plan[i].new_suffix =
                                      TwoDigits(LetterRank(g, k) + 1)

\* C7 witness: the list reports s_Fb, s_Fa, s_F.nii.gz is on disk, and the
\* plan is base->01, a->02, b->03
C7_Witness ==
    /\ Planned
    /\ Len(issues[1].files) = 2
    /\ issues[1].files[1].suffix = <<"b">> /\ issues[1].files[1].base_name = <<"F">>
    /\ issues[1].files[2].suffix = <<"a">> /\ issues[1].files[2].base_name = <<"F">>
    /\ BaseVolume(<< 1, <<"F">> >>) \in fs
    /\ rename_plan[1].old_suffix = <<>> /\ rename_plan[1].new_suffix = <<"0","1">>
    /\ \E i, j \in 1..Len(rename_plan) :
          /\ rename_plan[i].old_path = issues[1].files[2].full_path
          /\ rename_plan[i].new_suffix = <<"0","2">>
          /\ rename_plan[j].old_path = issues[1].files[1].full_path
          /\ rename_plan[j].new_suffix = <<"0","3">>

\* the volume entries of the plan that carry the group key of entry i
SameGroupVolumes(i) ==
    {j \in VolumeEntries :
        /\ rename_plan[j].subject = rename_plan[i].subject
        /\ rename_plan[j].session = rename_plan[i].session
        /\ rename_plan[j].modality = rename_plan[i].modality
        /\ rename_plan[j].base_name = rename_plan[i].base_name}

\* C8: in the returned plan, the new suffixes of the volume entries of each
\* (subject, session, modality, base name) group are exactly 01..n, n being
\* the number of these entries, each used once and two digits wide: the
\* numbering restarts at 01 in every group.
C8_ContiguousPerGroup ==
    Planned =>
        \A i \in VolumeEntries :
            LET G == SameGroupVolumes(i)
            IN  /\ {rename_plan[j].new_suffix : j \in G} =
                      {TwoDigits(r) : r \in 1..Cardinality(G)}
                /\ \A j, k \in G :
                      rename_plan[j].new_suffix = rename_plan[k].new_suffix => j = k
                /\ Len(rename_plan[i].new_suffix) = 2

\* C8 witness: a plan of three groups, two of the first session and one of
\* the second, one of them numbered 01..03 with its base file and another
\* starting again at 01
C8_Witness ==
    /\ Planned
    /\ Len(issues) = 2
    /\ Cardinality({rename_plan[i].base_name : i \in VolumeEntries}) >= 2
    /\ \E i, j, k \in VolumeEntries :
          /\ rename_plan[i].session # rename_plan[j].session
          /\ rename_plan[i].new_suffix = <<"0","3">>
          /\ rename_plan[i].old_suffix = <<"b">>
          /\ rename_plan[j].new_suffix = <<"0","1">>
          /\ rename_plan[j].old_suffix = <<"a">>
          /\ rename_plan[k].session = rename_plan[i].session
          /\ rename_plan[k].base_name # rename_plan[i].base_name
          /\ rename_plan[k].new_suffix = <<"0","1">>

\* a path ending in .nii.gz with that ending changed to .json
SidecarOf(p) == SubSeq(p, 1, Len(p) - Len(NiiGz)) \o Json

\* C9: in the returned plan, for every entry of a volume file (the base
\* files' entries included): when the volume's .json sidecar is on disk the
\* plan has exactly one entry for the sidecar, its new path is the volume's
\* new path with .json for .nii.gz and its old and new suffix are the
\* volume entry's; when the sidecar is not on disk the plan has no entry for it.
C9_SidecarPaired ==
    Planned =>
        \A i \in VolumeEntries :
            LET S == EntriesOf(SidecarOf(rename_plan[i].old_path))
            IN  IF SidecarOf(rename_plan[i].old_path) \in fs
                THEN /\ Cardinality(S) = 1
                     /\ \A j \in S :
                           /\ rename_plan[j].new_path = SidecarOf(rename_plan[i].new_path)
                           /\ rename_plan[j].old_suffix = rename_plan[i].old_suffix
                           /\ rename_plan[j].new_suffix = rename_plan[i].new_suffix
                ELSE S = {}

\* C9 witness: a plan with a base file and a lettered file that both have a
\* sidecar entry, and a lettered file whose sidecar is not on disk
C9_Witness ==
    /\ Planned
    /\ \E i, j, k \in VolumeEntries :
          /\ rename_plan[i].old_suffix = <<>>
          /\ EntriesOf(SidecarOf(rename_plan[i].old_path)) # {}
          /\ rename_plan[j].old_suffix = <<"a">>
          /\ EntriesOf(SidecarOf(rename_plan[j].old_path)) # {}
          /\ rename_plan[k].old_suffix = <<"b">>
          /\ SidecarOf(rename_plan[k].old_path) \notin fs

\* every reported filename has the form <prefix>_<base_name><letter>.nii.gz
WellFormedNames ==
    \A b \in 1..Len(issues) : \A k \in 1..Len(issues[b].files) :
        LET f == issues[b].files[k]
        IN  /\ Len(f.suffix) = 1
            /\ EndsWith(f.filename, <<"_">> \o f.base_name \o f.suffix \o NiiGz)
            /\ Len(f.filename) > Len(<<"_">> \o f.base_name \o f.suffix \o NiiGz)

\* C10 (as claimed): in the returned plan of an input whose filenames are
\* well formed, no two entries have the same new path and no entry's new
\* path is the old path of an entry.
C10_NoSharedPaths ==
    (Planned /\ WellFormedNames) =>
        /\ \A i, j \in 1..Len(rename_plan) :
              rename_plan[i].new_path = rename_plan[j].new_path => i = j
        /\ \A i, j \in 1..Len(rename_plan) :
              rename_plan[i].new_path # rename_plan[j].old_path

-----------------------------------------------------------------------------
(* execute_renames                                                          *)

\* the three kinds of message appended to errors
SourceMissing(item) == << "Source file does not exist", item.old_path >>
TargetExists(item) == << "Target file already exists", item.new_path >>
RenameError(item) == << "Error renaming", item.old_path, item.new_path >>

\* os.path.exists(path): a file or a directory is at the path
Exists(files, directories, path) == path \in files \/ path \in directories

\* the path is inside the directory (at any depth)
IsUnder(path, directory) ==
    /\ Len(path) > Len(directory) + 1
    /\ SubSeq(path, 1, Len(directory)) = directory
    /\ path[Len(directory) + 1] = "/"

\* the directories above a path, below the root the paths are relative to
Ancestors(path) == { SubSeq(path, 1, i - 1) : i \in {j \in 1..Len(path) : path[j] = "/"} }

\* where a path is after old_path has been renamed to new_path
Rebase(path, old_path, new_path) ==
    IF path = old_path \/ IsUnder(path, old_path)
    THEN new_path \o SubSeq(path, Len(old_path) + 1, Len(path))
    ELSE path

\* a faulty variant of MoveFile: the file is copied: the source stays
MoveFileCopy(files, old_path, new_path) == files \cup {new_path}

\* shutil.move(old_path, new_path), new_path not existing: the files afterwards
\* (old_path a file, or a directory that moves with what it holds)
MoveFile(files, old_path, new_path) == { Rebase(p, old_path, new_path) : p \in files }

\* shutil.move(old_path, new_path): the directories afterwards
MoveDirs(directories, old_path, new_path) == { Rebase(p, old_path, new_path) : p \in directories }

\* os.makedirs(os.path.dirname(new_path), exist_ok=True): the directories afterwards
MakeDirs(directories, new_path) == directories \cup Ancestors(new_path)

\* makedirs or move raises for certain: a directory above new_path is a
\* file, or new_path is inside the directory old_path
MoveRaises(files, old_path, new_path) ==
    \/ Ancestors(new_path) \cap files # {}
    \/ IsUnder(new_path, old_path)

\* the longest plan handed to execute_renames
MaxPlan == 2

\* the paths the plans are about: two files in each of two directories
ExecPaths == { <<"d","/","a">>, <<"d","/","b">>, <<"e","/","a">>, <<"e","/","b">> }

\* the plans: up to MaxPlan entries, each naming any old and any new path
\* (execute_renames reads nothing else of an entry)
PlanEntries == [old_path : ExecPaths, new_path : ExecPaths]
Plans == UNION {[1..n -> PlanEntries] : n \in 0..MaxPlan}

InitExec ==
    /\ pc = "exec"
    /\ rename_plan \in Plans
    /\ fs \in SUBSET ExecPaths
    /\ dirs \in {{PathParent(p) : p \in fs} \cup extra : extra \in SUBSET {<<"d">>, <<"e">>}}
    /\ dry_run \in BOOLEAN
    /\ fs0 = fs
    /\ ei = 1
    /\ success_count = 0
    /\ error_count = 0
    /\ errors = <<>>
    /\ run = 1
    /\ first = <<>>
    /\ RestClassify /\ RestPlan /\ RestConvert

execFrame == << rename_plan, dry_run, fs0, run, first, pc, modality_dir, results,
                planVars, convertVars >>

\* a faulty variant of ExecSourceMissing: the error ends the loop (`break`)
ExecSourceMissingBreak ==
    /\ pc = "exec" /\ ei <= Len(rename_plan)
    /\ ~ Exists(fs, dirs, rename_plan[ei].old_path)
    /\ errors' = Append(errors, SourceMissing(rename_plan[ei]))
    /\ error_count' = error_count + 1
    /\ ei' = Len(rename_plan) + 1
    /\ UNCHANGED << fs, dirs, success_count, execFrame >>

\* `if not os.path.exists(old_path)`: the error is recorded, `continue`
ExecSourceMissing ==
    /\ pc = "exec" /\ ei <= Len(rename_plan)
    /\ ~ Exists(fs, dirs, rename_plan[ei].old_path)
    /\ errors' = Append(errors, SourceMissing(rename_plan[ei]))
    /\ error_count' = error_count + 1
    /\ ei' = ei + 1
    /\ UNCHANGED << fs, dirs, success_count, execFrame >>

\* `if os.path.exists(new_path)`: the error is recorded, `continue`
ExecTargetExists ==
    /\ pc = "exec" /\ ei <= Len(rename_plan)
    /\ Exists(fs, dirs, rename_plan[ei].old_path)
    /\ Exists(fs, dirs, rename_plan[ei].new_path)
    /\ errors' = Append(errors, TargetExists(rename_plan[ei]))
    /\ error_count' = error_count + 1
    /\ ei' = ei + 1
    /\ UNCHANGED << fs, dirs, success_count, execFrame >>

\* a faulty variant of ExecPreview: the preview does not look at the target
ExecPreviewNoTargetCheck ==
    /\ pc = "exec" /\ ei <= Len(rename_plan)
    /\ Exists(fs, dirs, rename_plan[ei].old_path)
    /\ dry_run
    /\ success_count' = success_count + 1
    /\ ei' = ei + 1
    /\ UNCHANGED << fs, dirs, error_count, errors, execFrame >>

\* dry_run: the entry is counted, nothing is touched
ExecPreview ==
    /\ pc = "exec" /\ ei <= Len(rename_plan)
    /\ Exists(fs, dirs, rename_plan[ei].old_path)
    /\ ~ Exists(fs, dirs, rename_plan[ei].new_path)
    /\ dry_run
    /\ success_count' = success_count + 1
    /\ ei' = ei + 1
    /\ UNCHANGED << fs, dirs, error_count, errors, execFrame >>

\* a faulty variant of ExecMove: the mode is not looked at
ExecMoveAnyMode ==
    /\ pc = "exec" /\ ei <= Len(rename_plan)
    /\ Exists(fs, dirs, rename_plan[ei].old_path)
    /\ ~ Exists(fs, dirs, rename_plan[ei].new_path)
    /\ ~ MoveRaises(fs, rename_plan[ei].old_path, rename_plan[ei].new_path)
    /\ dirs' = MoveDirs(MakeDirs(dirs, rename_plan[ei].new_path),
                      rename_plan[ei].old_path, rename_plan[ei].new_path)
    /\ fs' = MoveFile(fs, rename_plan[ei].old_path, rename_plan[ei].new_path)
    /\ success_count' = success_count + 1
    /\ ei' = ei + 1
    /\ UNCHANGED << error_count, errors, execFrame >>

\* a faulty variant of ExecMove: the target is not looked at
ExecMoveOverwrite ==
    /\ pc = "exec" /\ ei <= Len(rename_plan)
    /\ Exists(fs, dirs, rename_plan[ei].old_path)
    /\ ~ dry_run
    /\ ~ MoveRaises(fs, rename_plan[ei].old_path, rename_plan[ei].new_path)
    /\ dirs' = MoveDirs(MakeDirs(dirs, rename_plan[ei].new_path),
                      rename_plan[ei].old_path, rename_plan[ei].new_path)
    /\ fs' = MoveFile(fs, rename_plan[ei].old_path, rename_plan[ei].new_path)
    /\ success_count' = success_count + 1
    /\ ei' = ei + 1
    /\ UNCHANGED << error_count, errors, execFrame >>

\* not dry_run, and neither makedirs nor move raises
ExecMove ==
    /\ pc = "exec" /\ ei <= Len(rename_plan)
    /\ Exists(fs, dirs, rename_plan[ei].old_path)
    /\ ~ Exists(fs, dirs, rename_plan[ei].new_path)
    /\ ~ dry_run
    /\ ~ MoveRaises(fs, rename_plan[ei].old_path, rename_plan[ei].new_path)
    /\ dirs' = MoveDirs(MakeDirs(dirs, rename_plan[ei].new_path),
                      rename_plan[ei].old_path, rename_plan[ei].new_path)
    /\ fs' = MoveFile(fs, rename_plan[ei].old_path, rename_plan[ei].new_path)
    /\ success_count' = success_count + 1
    /\ ei' = ei + 1
    /\ UNCHANGED << error_count, errors, execFrame >>

\* a faulty variant of ExecMoveError: the failure is counted, no message kept
ExecMoveErrorSilent ==
    /\ pc = "exec" /\ ei <= Len(rename_plan)
    /\ Exists(fs, dirs, rename_plan[ei].old_path)
    /\ ~ Exists(fs, dirs, rename_plan[ei].new_path)
    /\ ~ dry_run
    /\ dirs' \in IF Ancestors(rename_plan[ei].new_path) \cap fs = {}
                THEN {dirs, MakeDirs(dirs, rename_plan[ei].new_path)}
                ELSE {dirs}
    /\ error_count' = error_count + 1
    /\ ei' = ei + 1
    /\ UNCHANGED << errors, fs, success_count, execFrame >>

\* not dry_run, and makedirs or move raises (an I/O error): the exception is
\* caught and recorded; no file has moved, the directory may have been made
ExecMoveError ==
    /\ pc = "exec" /\ ei <= Len(rename_plan)
    /\ Exists(fs, dirs, rename_plan[ei].old_path)
    /\ ~ Exists(fs, dirs, rename_plan[ei].new_path)
    /\ ~ dry_run
    /\ dirs' \in IF Ancestors(rename_plan[ei].new_path) \cap fs = {}
                THEN {dirs, MakeDirs(dirs, rename_plan[ei].new_path)}
                ELSE {dirs}
    /\ errors' = Append(errors, RenameError(rename_plan[ei]))
    /\ error_count' = error_count + 1
    /\ ei' = ei + 1
    /\ UNCHANGED << fs, success_count, execFrame >>

\* `return success_count, error_count, errors`
ExecReturn ==
    /\ pc = "exec" /\ ei > Len(rename_plan)
    /\ pc' = "returned"
    /\ first' = IF run = 1
                THEN [dry_run |-> dry_run, success_count |-> success_count,
                      error_count |-> error_count, errors |-> errors,
                      fs0 |-> fs0, fs |-> fs, dirs |-> dirs]
                ELSE first
    /\ UNCHANGED << rename_plan, fs, dirs, dry_run, fs0, ei, success_count, error_count,
                    errors, run, modality_dir, results, planVars, convertVars >>

\* execute_renames is called again on the same plan, in either mode, on the
\* disk the first run left
ExecAgain ==
    /\ pc = "returned" /\ run = 1
    /\ pc' = "exec"
    /\ run' = 2
    /\ dry_run' \in BOOLEAN
    /\ fs0' = fs
    /\ ei' = 1
    /\ success_count' = 0
    /\ error_count' = 0
    /\ errors' = <<>>
    /\ UNCHANGED << rename_plan, fs, dirs, first, modality_dir, results, planVars,
                    convertVars >>

NextExec ==
    \/ ExecSourceMissing
    \/ ExecTargetExists
    \/ ExecPreview
    \/ ExecMove
    \/ ExecMoveError
    \/ ExecReturn
    \/ ExecAgain

SpecExec == InitExec /\ [][NextExec]_vars

-----------------------------------------------------------------------------
(* Properties of the executor (SpecExec).                                   *)

\* the second run has returned, both runs were in apply mode, and every
\* entry of the (non-empty) plan succeeded in the first
ReappliedAfterSuccess ==
    /\ pc = "returned" /\ run = 2
    /\ ~ first.dry_run /\ ~ dry_run
    /\ Len(rename_plan) >= 1
    /\ first.success_count = Len(rename_plan)

\* C1 (as claimed): applying the plan again after a fully successful apply
\* gives zero successes and one "target exists" error per entry, and leaves
\* the files as they were.
C1_ReapplyTargetExists ==
    ReappliedAfterSuccess =>
        /\ success_count = 0
        /\ error_count = Len(rename_plan)
        /\ errors = [i \in 1..Len(rename_plan) |-> TargetExists(rename_plan[i])]
        /\ fs = fs0

\* no new path of the plan is also an old path of the plan
NoNewIsOld ==
    \A i, j \in 1..Len(rename_plan) : rename_plan[i].new_path # rename_plan[j].old_path

\* the paths the plan names
PlanPaths == { rename_plan[i].old_path : i \in 1..Len(rename_plan) } \cup { rename_plan[i].new_path : i \in 1..Len(rename_plan) }

\* no path of the plan is a directory above another path of the plan
NoPathAbove == \A p, q \in PlanPaths : ~ IsUnder(q, p)

\* the plan names files: no path of it is a directory, or a directory above
\* another of its paths (so no entry has moved, or will move, a directory)
PlanNamesFiles == NoPathAbove /\ PlanPaths \cap dirs = {}

\* C1 (amended): applying the plan again after a fully successful apply, the
\* plan naming files and having no new path that is also one of its old
\* paths, gives zero successes and one "source does not exist" error per
\* entry, in plan order, and leaves the files and directories as they were.
C1_ReapplySourceMissing ==
    (ReappliedAfterSuccess /\ NoNewIsOld /\ PlanNamesFiles) =>
        /\ success_count = 0
        /\ error_count = Len(rename_plan)
        /\ errors = [i \in 1..Len(rename_plan) |-> SourceMissing(rename_plan[i])]
        /\ fs = fs0
        /\ fs = first.fs
        /\ dirs = first.dirs

\* C1 witness: a plan of two entries was applied, both moved, and applied again
C1_Witness ==
    /\ ReappliedAfterSuccess /\ NoNewIsOld /\ PlanNamesFiles
    /\ Len(rename_plan) = 2
    /\ first.fs # first.fs0
    /\ error_count = 2

\* the loop of execute_renames is at an entry
AtEntry == pc = "exec" /\ ei <= Len(rename_plan)

\* C11: in either mode, an entry whose old path does not exist gets a
\* source-missing error, otherwise one whose new path exists gets a
\* target-exists error; in both cases the failed count grows by one, no file
\* is moved (nor directory made), and the loop goes on to the next entry, so
\* that on return every entry of the plan has been counted once.
C11_EntryErrors ==
    /\ [][ (AtEntry /\ ~ Exists(fs, dirs, rename_plan[ei].old_path)) =>
              /\ errors' = Append(errors, SourceMissing(rename_plan[ei]))
              /\ error_count' = error_count + 1
              /\ success_count' = success_count
              /\ fs' = fs /\ dirs' = dirs
              /\ ei' = ei + 1 /\ pc' = "exec" ]_vars
    /\ [][ (AtEntry /\ Exists(fs, dirs, rename_plan[ei].old_path)
                    /\ Exists(fs, dirs, rename_plan[ei].new_path)) =>
              /\ errors' = Append(errors, TargetExists(rename_plan[ei]))
              /\ error_count' = error_count + 1
              /\ success_count' = success_count
              /\ fs' = fs /\ dirs' = dirs
              /\ ei' = ei + 1 /\ pc' = "exec" ]_vars
    /\ [](pc = "returned" =>
              /\ ei = Len(rename_plan) + 1
              /\ success_count + error_count = Len(rename_plan)
              /\ Len(errors) = error_count)

\* C11 witness: an apply run has returned in which the first entry had no
\* source, and the second, handled after it, had an existing target
C11_Witness ==
    /\ pc = "returned" /\ run = 1 /\ ~ dry_run
    /\ Len(rename_plan) = 2
    /\ errors = << SourceMissing(rename_plan[1]), TargetExists(rename_plan[2]) >>
    /\ rename_plan[1].old_path # rename_plan[2].old_path

\* C12: in preview mode no step of execute_renames changes the files or the
\* directories, and an entry whose old path exists and whose new path does
\* not is counted as a success (and not as an error).
C12_PreviewTouchesNothing ==
    [][ (pc = "exec" /\ dry_run) =>
            /\ fs' = fs /\ dirs' = dirs
            /\ (AtEntry /\ Exists(fs, dirs, rename_plan[ei].old_path)
                        /\ ~ Exists(fs, dirs, rename_plan[ei].new_path)) =>
                  /\ success_count' = success_count + 1
                  /\ error_count' = error_count /\ errors' = errors
                  /\ ei' = ei + 1 ]_vars

\* C12 witness: a preview of a plan of two entries has returned, both
\* counted as successes, the second one into a directory that does not exist
C12_Witness ==
    /\ pc = "returned" /\ run = 1 /\ dry_run
    /\ Len(rename_plan) = 2 /\ success_count = 2
    /\ PathParent(rename_plan[2].new_path) \notin dirs
    /\ fs = fs0 /\ fs # {}

\* C20 (as claimed): in apply mode a step changes the files only by moving
\* what is at the entry's old path onto the entry's new path, which did not
\* exist, the entry being counted as a success; so, for any plan, the number
\* of files stays what it was when the run started, and every file is at a
\* path it had then or at the new path of an entry handled.
C20_NoOverwrite ==
    /\ [][ (pc = "exec" /\ fs' # fs) =>
              /\ AtEntry /\ ~ dry_run
              /\ Exists(fs, dirs, rename_plan[ei].old_path)
              /\ ~ Exists(fs, dirs, rename_plan[ei].new_path)
              /\ success_count' = success_count + 1 ]_vars
    /\ [](pc \in {"exec", "returned"} =>
              /\ Cardinality(fs) = Cardinality(fs0)
              /\ \A p \in fs : \/ p \in fs0
                               \/ \E i \in 1..(ei - 1) : rename_plan[i].new_path = p)

\* C20 (amended): the same, the last part for a plan that names files: a
\* step changes the files only by moving what is at the entry's old path
\* onto the entry's new path, which did not exist, no file being lost; the
\* number of files stays what it was; and, when the plan names files, every
\* file is at a path it had at the start or at the new path of an entry
\* handled.
C20_NoOverwriteOfFiles ==
    /\ [][ (pc = "exec" /\ fs' # fs) =>
              /\ AtEntry /\ ~ dry_run
              /\ Exists(fs, dirs, rename_plan[ei].old_path)
              /\ ~ Exists(fs, dirs, rename_plan[ei].new_path)
              /\ fs' = MoveFile(fs, rename_plan[ei].old_path, rename_plan[ei].new_path)
              /\ Cardinality(fs') = Cardinality(fs)
              /\ success_count' = success_count + 1 ]_vars
    /\ [](pc \in {"exec", "returned"} => Cardinality(fs) = Cardinality(fs0))
    /\ [](pc \in {"exec", "returned"} /\ PlanNamesFiles =>
              \A p \in fs : \/ p \in fs0
                             \/ \E i \in 1..(ei - 1) : rename_plan[i].new_path = p)

\* C20 witness: an apply run of a plan that names files has returned: it
\* moved a file and refused to move another onto an existing path
C20_Witness ==
    /\ pc = "returned" /\ ~ dry_run
    /\ PlanNamesFiles
    /\ Len(rename_plan) = 2
    /\ success_count = 1
    /\ errors = << TargetExists(rename_plan[2]) >>
    /\ fs # fs0

-----------------------------------------------------------------------------
(* convert_session_with_dcm2niix                                            *)

\* the most acquisitions in a session
MaxAcq == 2

\* the keys of modality_mapping whose category is 'exclude'
ExcludedKeys == { modality_mapping[i].k : i \in {j \in DOMAIN modality_mapping :
                                                   modality_mapping[j].v = "exclude"} }

\* the acquisition directories of the sessions: every excluded protocol, and
\* protocols that are converted (an exact key with its own suffix, an exact
\* key with the category's default suffix, a partial match, an unknown name)
AcquisitionNames ==
    ExcludedKeys \cup
    { <<"M","P","R","A","G","E">>,
      <<"A","x","i","a","l","_","M","B","_","D","T","I","_","P","A","_","_","M","S","V","2","1","_">>,
      <<"M","P","-","R","A","G","E">>,
      <<"S","c","o","u","t">>,
      <<"k","q">> }

\* the timestamp directory of the session under each acquisition directory
\* (YYYY-MM-DD_HH_MM_SS.S)
SessionTimestampDir ==
    <<"2","0","2","2","-","0","3","-","3","1","_","1","3","_","3","8","_","1","4",".","0">>

Sessions ==
    UNION {[1..n -> [modality_dir : AcquisitionNames,
                     session_timestamp_dir : {SessionTimestampDir}]] : n \in 0..MaxAcq}

\* the subject directory name of the session
SubjectId == <<"0","2","7","_","S","_","6","5","1","2">>

\* session_dir.name.split('_')[0].replace('-', ''): the session date of a
\* timestamp directory, as extract_sessions_for_subject computes it
SessionDateOf(timestamp_dir) == StrReplace(SplitFirst(timestamp_dir, <<"_">>), <<"-">>, <<>>)

\* what dicom_source is on disk: no such directory, a directory without
\* *.dcm / *.DCM files, a directory with some
SourceStates == {"missing", "empty", "dicoms"}

\* the states of the sources of a session (the source of an excluded
\* acquisition is never looked at: one state is enough for it)
SourcesOf(data, states) ==
    {src \in [1..Len(data) -> states] :
        \A i \in 1..Len(data) : data[i].modality_dir \in ExcludedKeys => src[i] = "dicoms"}

\* logger.info(f"Converting {subject_id} {session_id}")
ConvertingLine(subject, date) == << "Converting", subject, date >>

InitConvert ==
    /\ pc = "convert"
    /\ subject_id = SubjectId
    /\ session_date = SessionDateOf(SessionTimestampDir)
    /\ session_data \in Sessions
    /\ source_state \in SourcesOf(session_data, SourceStates)
    /\ ai = 1
    /\ success = TRUE
    /\ conversion_count = 0
    /\ invocations = <<>>
    /\ made_dirs = {}
    /\ log = << ConvertingLine(subject_id, session_date) >>
    /\ RestRun
    /\ RestClassify /\ RestDisk /\ RestPlan /\ RestExec

convertFrame == << pc, subject_id, session_date, session_data, source_state, runVars,
                   modality_dir, results, fs, dirs, rename_plan, planVars, execVars >>

\* self.map_modality_to_bids(modality_dir), for each directory name of the
\* sessions (the function reads nothing but the tables)
Classification == [name \in AcquisitionNames |-> map_modality_to_bids(name)]

\* the acquisition the loop is at, and what map_modality_to_bids returns for it
Acquisition == session_data[ai]
Mapped == Classification[Acquisition.modality_dir]

\* a faulty variant of BidsSubject: the underscores are kept
BidsSubjectRaw(subject) == subject

\* bids_subject = subject_id.replace('_', '')
BidsSubject(subject) == StrReplace(subject, <<"_">>, <<>>)

\* session_id = f"ses-{session_date}"
SessionId(date) == <<"s","e","s","-">> \o date

\* the dcm2niix command line:
\*   '-f' output_filename = f"sub-{bids_subject}_{session_id}_{bids_suffix}" (stem: the
\*        part before the suffix),
\*   '-o' bids_modality_dir = bids_output / f"sub-{bids_subject}" / session_id / bids_modality
\*        (the components under bids_output),
\*   and the input directory dicom_root / subject_id / modality_dir / session_timestamp_dir
Command(acq, mapped) ==
    [f |-> [stem |-> <<"s","u","b","-">> \o BidsSubject(subject_id) \o <<"_">>
                        \o SessionId(session_date) \o <<"_">>,
            suffix |-> mapped.suffix],
     o |-> [subject_dir |-> <<"s","u","b","-">> \o BidsSubject(subject_id),
            session_dir |-> SessionId(session_date),
            modality_dir |-> mapped.modality],
     source |-> << subject_id, acq.modality_dir, acq.session_timestamp_dir >>]

LogLine(what) == << what, Acquisition.modality_dir, Acquisition.session_timestamp_dir >>

\* `if bids_modality is None: ... continue`
ConvertSkipExcluded ==
    /\ pc = "convert" /\ ai <= Len(session_data)
    /\ Mapped.modality = None
    /\ log' = Append(log, LogLine("Skipping excluded modality"))
    /\ ai' = ai + 1
    /\ UNCHANGED << success, conversion_count, invocations, made_dirs, convertFrame >>

\* the category directory is made; `if not dicom_source.exists(): ... continue`
ConvertSourceMissing ==
    /\ pc = "convert" /\ ai <= Len(session_data)
    /\ Mapped.modality # None
    /\ source_state[ai] = "missing"
    /\ made_dirs' = made_dirs \cup {Mapped.modality}
    /\ log' = Append(log, LogLine("DICOM source does not exist"))
    /\ ai' = ai + 1
    /\ UNCHANGED << success, conversion_count, invocations, convertFrame >>

\* a faulty variant of ConvertNoDicoms: the session is marked as failed
ConvertNoDicomsFailure ==
    /\ pc = "convert" /\ ai <= Len(session_data)
    /\ Mapped.modality # None
    /\ source_state[ai] = "empty"
    /\ made_dirs' = made_dirs \cup {Mapped.modality}
    /\ success' = FALSE
    /\ log' = Append(log, LogLine("No DICOM files found"))
    /\ ai' = ai + 1
    /\ UNCHANGED << conversion_count, invocations, convertFrame >>

\* the category directory is made; `if not dicom_files: ... continue`
ConvertNoDicoms ==
    /\ pc = "convert" /\ ai <= Len(session_data)
    /\ Mapped.modality # None
    /\ source_state[ai] = "empty"
    /\ made_dirs' = made_dirs \cup {Mapped.modality}
    /\ log' = Append(log, LogLine("No DICOM files found"))
    /\ ai' = ai + 1
    /\ UNCHANGED << success, conversion_count, invocations, convertFrame >>

\* a faulty variant of ConvertOk: an acquisition of category 'other' is
\* passed over, the converter not run
ConvertOkSkipOther ==
    /\ pc = "convert" /\ ai <= Len(session_data)
    /\ Mapped.modality # None
    /\ source_state[ai] = "dicoms"
    /\ made_dirs' = made_dirs \cup {Mapped.modality}
    /\ invocations' = IF Mapped.modality = "other"
                      THEN invocations
                      ELSE Append(invocations, Command(Acquisition, Mapped))
    /\ conversion_count' = IF Mapped.modality = "other"
                           THEN conversion_count
                           ELSE conversion_count + 1
    /\ log' = Append(log, LogLine(IF Mapped.modality = "other"
                                   THEN "Skipping excluded modality"
                                   ELSE "Successfully converted"))
    /\ ai' = ai + 1
    /\ UNCHANGED << success, convertFrame >>

\* dcm2niix is run and returns 0
ConvertOk ==
    /\ pc = "convert" /\ ai <= Len(session_data)
    /\ Mapped.modality # None
    /\ source_state[ai] = "dicoms"
    /\ made_dirs' = made_dirs \cup {Mapped.modality}
    /\ invocations' = Append(invocations, Command(Acquisition, Mapped))
    /\ conversion_count' = conversion_count + 1
    /\ log' = Append(log, LogLine("Successfully converted"))
    /\ ai' = ai + 1
    /\ UNCHANGED << success, convertFrame >>

\* a faulty variant of ConvertFail: the failure ends the session's loop
ConvertFailBreak ==
    /\ pc = "convert" /\ ai <= Len(session_data)
    /\ Mapped.modality # None
    /\ source_state[ai] = "dicoms"
    /\ made_dirs' = made_dirs \cup {Mapped.modality}
    /\ invocations' = Append(invocations, Command(Acquisition, Mapped))
    /\ success' = FALSE
    /\ log' = Append(log, LogLine("dcm2niix failed"))
    /\ ai' = Len(session_data) + 1
    /\ UNCHANGED << conversion_count, convertFrame >>

\* dcm2niix is run and returns a non-zero code
ConvertFail ==
    /\ pc = "convert" /\ ai <= Len(session_data)
    /\ Mapped.modality # None
    /\ source_state[ai] = "dicoms"
    /\ made_dirs' = made_dirs \cup {Mapped.modality}
    /\ invocations' = Append(invocations, Command(Acquisition, Mapped))
    /\ success' = FALSE
    /\ log' = Append(log, LogLine("dcm2niix failed"))
    /\ ai' = ai + 1
    /\ UNCHANGED << conversion_count, convertFrame >>

\* an exception in the body (mkdir, exists, glob or subprocess.run raises):
\* caught by `except Exception`; the directory may or may not have been made,
\* the converter has not run
ConvertException ==
    /\ pc = "convert" /\ ai <= Len(session_data)
    /\ Mapped.modality # None
    /\ made_dirs' \in {made_dirs, made_dirs \cup {Mapped.modality}}
    /\ success' = FALSE
    /\ log' = Append(log, LogLine("Error converting"))
    /\ ai' = ai + 1
    /\ UNCHANGED << conversion_count, invocations, convertFrame >>

\* `return success`
ConvertReturn ==
    /\ pc = "convert" /\ ai > Len(session_data)
    /\ pc' = "converted"
    /\ UNCHANGED << subject_id, session_date, session_data, source_state, ai, success,
                    conversion_count, invocations, made_dirs, log, runVars,
                    modality_dir, results, fs, dirs, rename_plan, planVars, execVars >>

NextConvert ==
    \/ ConvertSkipExcluded
    \/ ConvertSourceMissing
    \/ ConvertNoDicoms
    \/ ConvertOk
    \/ ConvertFail
    \/ ConvertException
    \/ ConvertReturn

SpecConvert == InitConvert /\ [][NextConvert]_vars

-----------------------------------------------------------------------------
(* Properties of the session converter (SpecConvert).                       *)

\* the loop is at an acquisition whose directory name is an 'exclude' key
AtExcluded ==
    /\ pc = "convert" /\ ai <= Len(session_data)
    /\ \E i \in DOMAIN modality_mapping :
          /\ modality_mapping[i].k = session_data[ai].modality_dir
          /\ modality_mapping[i].v = "exclude"

\* C4: for an acquisition whose directory name is an 'exclude' key,
\* map_modality_to_bids returns (None, None), and the loop's step over it
\* invokes the converter zero times, creates no category directory, and
\* leaves the success flag (and the conversion count) unchanged.
C4_ExcludedSkipped ==
    [][ (AtExcluded /\ ai' = ai + 1) =>
            /\ Classification[session_data[ai].modality_dir].modality = None
            /\ Classification[session_data[ai].modality_dir].suffix = None
            /\ invocations' = invocations
            /\ made_dirs' = made_dirs
            /\ success' = success
            /\ conversion_count' = conversion_count ]_vars

\* C4 witness: a session of an excluded acquisition and a converted one has
\* returned: one invocation, one directory, none of them for the excluded one
C4_Witness ==
    /\ pc = "converted"
    /\ Len(session_data) = 2
    /\ session_data[1].modality_dir \in ExcludedKeys
    /\ session_data[2].modality_dir \notin ExcludedKeys
    /\ Len(invocations) = 1
    /\ made_dirs = {"anat"}
    /\ success

\* the loop is at an included acquisition whose source directory is missing
\* or holds no DICOM file
AtSkipped ==
    /\ pc = "convert" /\ ai <= Len(session_data)
    /\ session_data[ai].modality_dir \notin ExcludedKeys
    /\ source_state[ai] \in {"missing", "empty"}

\* the step has caught an exception (an I/O error while handling the acquisition)
ExceptionCaught == log' = Append(log, LogLine("Error converting"))

\* C19: the step over an included acquisition whose timestamp directory is
\* missing or holds no DICOM file runs no converter and counts no conversion,
\* and, unless an exception is caught in it, leaves the success flag as it
\* was; so a session whose acquisitions are all excluded or without source
\* files, handled without an exception, returns True having converted nothing.
C19_NoSourceIsSkip ==
    /\ [][ (AtSkipped /\ ai' = ai + 1) =>
              /\ invocations' = invocations
              /\ conversion_count' = conversion_count
              /\ (~ ExceptionCaught) => success' = success ]_vars
    /\ [](( /\ pc = "converted"
            /\ \A i \in 1..Len(session_data) :
                  \/ session_data[i].modality_dir \in ExcludedKeys
                  \/ source_state[i] \in {"missing", "empty"}
            /\ \A l \in 1..Len(log) : log[l][1] # "Error converting" ) =>
              /\ success /\ invocations = <<>> /\ conversion_count = 0)

\* C19 witness: a session of an acquisition without DICOM files and one
\* without source directory has returned True, the category directory made
C19_Witness ==
    /\ pc = "converted"
    /\ Len(session_data) = 2
    /\ session_data[1].modality_dir \notin ExcludedKeys
    /\ session_data[2].modality_dir \notin ExcludedKeys
    /\ source_state = << "empty", "missing" >>
    /\ made_dirs # {}
    /\ invocations = <<>> /\ conversion_count = 0
    /\ success

\* the loop is at an acquisition that map_modality_to_bids classifies as
\* ('other', 'unknown'), and whose timestamp directory holds DICOM files
AtUnknownWithSource ==
    /\ pc = "convert" /\ ai <= Len(session_data)
    /\ Mapped.modality = "other" /\ Mapped.suffix = "unknown"
    /\ source_state[ai] = "dicoms"

\* the converter was run on the acquisition at ai and returned 0 (the only
\* case in which "Successfully converted" is logged)
ZeroExit == log' = Append(log, LogLine("Successfully converted"))

\* C23: the step over an acquisition classified as (other, unknown) whose
\* timestamp directory holds DICOM files does not skip it: unless an
\* exception is caught, the converter is invoked once, on that directory,
\* with output directory sub-<subject>/ses-<date>/other and a base filename
\* that ends in _unknown; and when the converter returns 0 the acquisition
\* is counted as converted and the success flag is left as it was.
C23_UnknownIsConverted ==
    [][ (AtUnknownWithSource /\ ai' = ai + 1) =>
            /\ log' # Append(log, LogLine("Skipping excluded modality"))
            /\ (~ ExceptionCaught) =>
                  /\ Len(invocations') = Len(invocations) + 1
                  /\ SubSeq(invocations', 1, Len(invocations)) = invocations
                  /\ LET cmd == invocations'[Len(invocations')]
                     IN  /\ cmd.o.modality_dir = "other"
                         /\ cmd.o.subject_dir = <<"s","u","b","-">> \o BidsSubject(subject_id)
                         /\ cmd.o.session_dir = SessionId(session_date)
                         /\ cmd.f.stem[Len(cmd.f.stem)] = "_"
                         /\ cmd.f.suffix = "unknown"
                         /\ cmd.source = << subject_id, session_data[ai].modality_dir,
                                            session_data[ai].session_timestamp_dir >>
                  /\ "other" \in made_dirs'
            /\ ZeroExit =>
                  /\ conversion_count' = conversion_count + 1
                  /\ success' = success ]_vars

\* C23 witness: a session of one acquisition with an unknown directory name
\* (kq) has returned True, the converter run once into the directory other
C23_Witness ==
    /\ pc = "converted"
    /\ Len(session_data) = 1
    /\ session_data[1].modality_dir = <<"k","q">>
    /\ Classification[<<"k","q">>].modality = "other"
    /\ Classification[<<"k","q">>].suffix = "unknown"
    /\ source_state = << "dicoms" >>
    /\ Len(invocations) = 1
    /\ invocations[1].o.modality_dir = "other" /\ invocations[1].f.suffix = "unknown"
    /\ conversion_count = 1
    /\ success

-----------------------------------------------------------------------------
(* main, convert_all_subjects, convert_subject                              *)

\* the subject directories under dicom_root (SubjectId is the greater)
OtherSubjectId == <<"0","2","7","_","S","_","0","0","0","1">>
SubjectIds == { SubjectId, OtherSubjectId }

\* a timestamp directory of another, earlier, day
EarlierTimestampDir ==
    <<"2","0","2","1","-","1","1","-","0","2","_","0","9","_","0","5","_","4","1",".","0">>
TimestampDirs == { SessionTimestampDir, EarlierTimestampDir }

\* the acquisition directories of a subject: an excluded protocol and two
\* protocols of the same category and suffix
RunNames ==
    { <<"A","A","H","e","a","d","_","S","c","o","u","t">>,
      <<"M","P","R","A","G","E">>,
      <<"M","P","-","R","A","G","E">> }

\* a timestamp directory found by the scan of a subject, with what it holds
ScanItems ==
    { it \in [modality_dir : RunNames, session_timestamp_dir : TimestampDirs,
              source : {"empty", "dicoms"}] :
        it.modality_dir \in ExcludedKeys => it.source = "dicoms" }

\* the scans of a subject directory, in the order of the two nested iterdir()
\* loops: up to MaxAcq timestamp directories, no directory twice, the
\* timestamp directories of one acquisition directory next to each other
Scans ==
    UNION { { scan \in [1..n -> ScanItems] :
                /\ \A i, j \in 1..n :
                      (i < j /\ scan[i].modality_dir = scan[j].modality_dir) =>
                          /\ scan[i].session_timestamp_dir # scan[j].session_timestamp_dir
                          /\ \A k \in i..j : scan[k].modality_dir = scan[i].modality_dir }
            : n \in 0..MaxAcq }

\* the subject lists: args.subject alone, or what discover_subjects returns
\* (sorted, no subject twice)
SubjectLists(m) ==
    IF m = "subject" THEN { << s >> : s \in SubjectIds }
    ELSE { <<>>, << OtherSubjectId >>, << SubjectId >>, << OtherSubjectId, SubjectId >> }

\* the session dates of a scan: the keys of the dict `sessions`
SessionDates(scan) == { SessionDateOf(scan[i].session_timestamp_dir) : i \in 1..Len(scan) }

\* a faulty variant of MinStr: the greatest
MaxStr(S) == CHOOSE s \in S : \A t \in S : t = s \/ StrLess(t, s)

\* the least of a non-empty set of str
MinStr(S) == CHOOSE s \in S : \A t \in S : t = s \/ StrLess(s, t)

\* sorted(keys): ascending
RECURSIVE SortedStrs(_)
SortedStrs(S) ==
    IF S = {} THEN <<>> ELSE << MinStr(S) >> \o SortedStrs(S \ {MinStr(S)})

\* sessions[session_date]: the scan's items of that date, in scan order
SessionItems(scan, date) ==
    SelectSeq(scan, LAMBDA it : SessionDateOf(it.session_timestamp_dir) = date)

\* sorted(sessions.items()) for the sessions extract_sessions_for_subject
\* builds from the scan (with, next to each tuple, the state of its source)
SortedSessions(scan) ==
    LET dates == SortedStrs(SessionDates(scan))
    IN  [d \in 1..Len(dates) |->
            LET items == SessionItems(scan, dates[d])
            IN  [session_date |-> dates[d],
                 session_data |-> [i \in 1..Len(items) |->
                     [modality_dir |-> items[i].modality_dir,
                      session_timestamp_dir |-> items[i].session_timestamp_dir]],
                 source_state |-> [i \in 1..Len(items) |-> items[i].source]]]

\* results[key] = value, for the dict kept as the list of its items
DictSet(d, key, value) ==
    IF \E i \in 1..Len(d) : d[i].key = key
    THEN [i \in 1..Len(d) |-> IF d[i].key = key THEN [key |-> key, value |-> value] ELSE d[i]]
    ELSE Append(d, [key |-> key, value |-> value])

InitRun ==
    /\ mode \in {"subject", "batch"}
    /\ subjects \in SubjectLists(mode)
    /\ \E scan \in Scans :
          tree \in { t \in [SubjectIds -> {<<>>, scan}] :
                       \A s \in SubjectIds :
                          (\A i \in 1..Len(subjects) : subjects[i] # s) => t[s] = <<>> }
    /\ pc = IF mode = "subject" THEN "subject" ELSE "next_subject"
    /\ si = 1
    /\ sessions = <<>>
    /\ di = 0
    /\ subject_success = TRUE
    /\ subject_results = <<>>
    /\ exit_code = None
    /\ subject_id = <<>> /\ session_date = <<>> /\ session_data = <<>>
    /\ source_state = <<>> /\ ai = 0 /\ success = TRUE /\ conversion_count = 0
    /\ invocations = <<>> /\ made_dirs = {} /\ log = <<>>
    /\ RestClassify /\ RestDisk /\ RestPlan /\ RestExec

otherVars == << modality_dir, results, fs, dirs, rename_plan, planVars, execVars >>
sessionVars == << subject_id, session_date, session_data, source_state, ai, success,
                  conversion_count, made_dirs >>

\* the call convert_session_with_dcm2niix(subject, date, data): its arguments
\* and the locals at the head of its loop
EnterSession(subject, s) ==
    /\ subject_id' = subject
    /\ session_date' = s.session_date
    /\ session_data' = s.session_data
    /\ source_state' = s.source_state
    /\ ai' = 1
    /\ success' = TRUE
    /\ conversion_count' = 0
    /\ made_dirs' = {}

\* convert_all_subjects: `for subject_id in subjects:` calls convert_subject
BatchNext ==
    /\ pc = "next_subject" /\ si <= Len(subjects)
    /\ pc' = "subject"
    /\ UNCHANGED << mode, subjects, tree, si, sessions, di, subject_success,
                    subject_results, exit_code, sessionVars, invocations, log, otherVars >>

\* convert_subject: `if not sessions: ... return False`
ConvertSubjectNoSessions ==
    /\ pc = "subject"
    /\ SortedSessions(tree[subjects[si]]) = <<>>
    /\ sessions' = <<>>
    /\ di' = 0
    /\ subject_success' = FALSE
    /\ invocations' = <<>>
    /\ log' = << << "No sessions found", subjects[si] >> >>
    /\ pc' = "subject_returned"
    /\ UNCHANGED << mode, subjects, tree, si, subject_results, exit_code,
                    sessionVars, otherVars >>

\* convert_subject: sessions were found; success = True and the first
\* session of sorted(sessions.items()) is entered
ConvertSubjectBegin ==
    /\ pc = "subject"
    /\ SortedSessions(tree[subjects[si]]) # <<>>
    /\ sessions' = SortedSessions(tree[subjects[si]])
    /\ di' = 1
    /\ subject_success' = TRUE
    /\ EnterSession(subjects[si], sessions'[1])
    /\ invocations' = <<>>
    /\ log' = << ConvertingLine(subjects[si], sessions'[1].session_date) >>
    /\ pc' = "convert"
    /\ UNCHANGED << mode, subjects, tree, si, subject_results, exit_code, otherVars >>

\* convert_subject raises before its loop (the log file cannot be opened,
\* the subject directory cannot be listed)
ConvertSubjectException ==
    /\ pc = "subject"
    /\ pc' = "subject_raised"
    /\ UNCHANGED << mode, subjects, tree, si, sessions, di, subject_success,
                    subject_results, exit_code, sessionVars, invocations, log, otherVars >>

\* the session has returned and is not the last: success = success and
\* session_success, and the next session is entered
SessionReturnNext ==
    /\ pc = "convert" /\ ai > Len(session_data)
    /\ di < Len(sessions)
    /\ subject_success' = (subject_success /\ success)
    /\ di' = di + 1
    /\ EnterSession(subject_id, sessions[di + 1])
    /\ log' = Append(log, ConvertingLine(subject_id, sessions[di + 1].session_date))
    /\ pc' = "convert"
    /\ UNCHANGED << mode, subjects, tree, si, sessions, subject_results, exit_code,
                    invocations, otherVars >>

\* the last session has returned: success = success and session_success,
\* `return success`
SessionReturnLast ==
    /\ pc = "convert" /\ ai > Len(session_data)
    /\ di = Len(sessions)
    /\ subject_success' = (subject_success /\ success)
    /\ pc' = "subject_returned"
    /\ UNCHANGED << mode, subjects, tree, si, sessions, di, subject_results, exit_code,
                    sessionVars, invocations, log, otherVars >>

\* the session has returned True and _get_converted_modalities raises
\* (the session directory cannot be listed): convert_subject raises
SessionReturnException ==
    /\ pc = "convert" /\ ai > Len(session_data)
    /\ success
    /\ pc' = "subject_raised"
    /\ UNCHANGED << mode, subjects, tree, si, sessions, di, subject_success,
                    subject_results, exit_code, sessionVars, invocations, log, otherVars >>

\* a faulty variant of BatchRecordException: the exception ends the loop
BatchRecordExceptionStop ==
    /\ mode = "batch" /\ pc = "subject_raised"
    /\ subject_results' = DictSet(subject_results, subjects[si], FALSE)
    /\ si' = Len(subjects) + 1
    /\ pc' = "next_subject"
    /\ UNCHANGED << mode, subjects, tree, sessions, di, subject_success, exit_code,
                    sessionVars, invocations, log, otherVars >>

\* convert_all_subjects: results[subject_id] = self.convert_subject(subject_id)
BatchRecordReturn ==
    /\ mode = "batch" /\ pc = "subject_returned"
    /\ subject_results' = DictSet(subject_results, subjects[si], subject_success)
    /\ si' = si + 1
    /\ pc' = "next_subject"
    /\ UNCHANGED << mode, subjects, tree, sessions, di, subject_success, exit_code,
                    sessionVars, invocations, log, otherVars >>

\* convert_all_subjects: `except Exception`: results[subject_id] = False
BatchRecordException ==
    /\ mode = "batch" /\ pc = "subject_raised"
    /\ subject_results' = DictSet(subject_results, subjects[si], FALSE)
    /\ si' = si + 1
    /\ pc' = "next_subject"
    /\ UNCHANGED << mode, subjects, tree, sessions, di, subject_success, exit_code,
                    sessionVars, invocations, log, otherVars >>

\* failed_count = sum(1 for success in results.values() if not success)
FailedCount(d) == Cardinality({i \in 1..Len(d) : ~ d[i].value})

\* a faulty variant of ExitCode: always 0
ExitCodeZero(failed) == 0

\* exit(0 if failed_count == 0 else 1), exit(0 if success else 1)
ExitCode(failed) == IF failed THEN 1 ELSE 0

\* main, batch mode: convert_all_subjects has returned; the exit code
BatchExit ==
    /\ mode = "batch" /\ pc = "next_subject" /\ si > Len(subjects)
    /\ exit_code' = ExitCode(FailedCount(subject_results) # 0)
    /\ pc' = "exited"
    /\ UNCHANGED << mode, subjects, tree, si, sessions, di, subject_success,
                    subject_results, sessionVars, invocations, log, otherVars >>

\* main, --subject: convert_subject has returned; the exit code
SubjectExit ==
    /\ mode = "subject" /\ pc = "subject_returned"
    /\ exit_code' = ExitCode(~ subject_success)
    /\ pc' = "exited"
    /\ UNCHANGED << mode, subjects, tree, si, sessions, di, subject_success,
                    subject_results, sessionVars, invocations, log, otherVars >>

\* main, --subject: convert_subject has raised; nothing catches the
\* exception and the interpreter ends with status 1
SubjectCrash ==
    /\ mode = "subject" /\ pc = "subject_raised"
    /\ exit_code' = 1
    /\ log' = Append(log, << "Traceback (most recent call last)" >>)
    /\ pc' = "exited"
    /\ UNCHANGED << mode, subjects, tree, si, sessions, di, subject_success,
                    subject_results, sessionVars, invocations, otherVars >>

NextRun ==
    \/ BatchNext
    \/ ConvertSubjectNoSessions
    \/ ConvertSubjectBegin
    \/ ConvertSubjectException
    \/ ConvertSkipExcluded
    \/ ConvertNoDicoms
    \/ ConvertOk
    \/ ConvertFail
    \/ ConvertException
    \/ SessionReturnNext
    \/ SessionReturnLast
    \/ SessionReturnException
    \/ BatchRecordReturn
    \/ BatchRecordException
    \/ BatchExit
    \/ SubjectExit
    \/ SubjectCrash

SpecRun == InitRun /\ [][NextRun]_vars

-----------------------------------------------------------------------------
(* Properties of a conversion run (SpecRun).                                *)

\* line l of the log is about an acquisition (not the head of a session)
IsAcquisitionLine(l) == Len(log[l]) = 3 /\ log[l][1] # "Converting"
IsSessionLine(l) == log[l][1] = "Converting"

\* the lines of the log that tell a failure of an acquisition
IsFailureLine(l) == log[l][1] \in {"dcm2niix failed", "Error converting"}

\* the step is one in which the external converter returned a non-zero code
ConverterFailed ==
    /\ pc = "convert" /\ ai <= Len(session_data)
    /\ log' = Append(log, LogLine("dcm2niix failed"))

\* the number of timestamp directories of the subject being converted
ScanLength == Len(tree[subject_id])

\* C13: a non-zero exit code of the converter for an acquisition marks the
\* session as failed and lets the loop go on to the next acquisition; a
\* session with such a failure returns False (the flag is still False when
\* its loop ends), convert_subject then returns False, and, unless
\* convert_subject raises, every session and every acquisition of the
\* subject has been attempted when it returns.
C13_FailureDoesNotAbort ==
    /\ [][ ConverterFailed =>
              /\ success' = FALSE
              /\ ai' = ai + 1 /\ pc' = "convert"
              /\ UNCHANGED << session_data, sessions, di >> ]_vars
    /\ []( (pc = "convert" /\
            \E l \in 1..Len(log) :
                /\ log[l][1] = "dcm2niix failed"
                /\ \A k \in (l + 1)..Len(log) : ~ IsSessionLine(k)) => ~ success )
    /\ [][ (pc = "convert" /\ ai > Len(session_data) /\ ~ success) =>
              ~ subject_success' ]_vars
    /\ []( (pc = "subject_returned" /\ sessions # <<>>) =>
              /\ (\E l \in 1..Len(log) : log[l][1] = "dcm2niix failed") => ~ subject_success
              /\ Cardinality({l \in 1..Len(log) : IsSessionLine(l)}) = Len(sessions)
              /\ Cardinality({l \in 1..Len(log) : IsAcquisitionLine(l)}) = ScanLength )

\* C13 witness: convert_subject has returned False; the converter failed for
\* the acquisition of the first session and the second session was converted
C13_Witness ==
    /\ pc = "subject_returned"
    /\ Len(sessions) = 2
    /\ Len(log) = 4
    /\ log[2][1] = "dcm2niix failed"
    /\ log[4][1] = "Successfully converted"
    /\ ~ subject_success

\* the keys of the results dict, in insertion order
ResultKeys == [i \in 1..Len(subject_results) |-> subject_results[i].key]

\* convert_subject has raised, or returned False, in convert_all_subjects
SubjectFailedInBatch ==
    /\ mode = "batch"
    /\ \/ pc = "subject_raised"
       \/ pc = "subject_returned" /\ ~ subject_success

\* C14: in convert_all_subjects a subject for which convert_subject raises
\* or returns False (a subject without sessions returns False) is recorded
\* as False and the loop goes on with the next subject of the list; on
\* return the results hold one entry per subject of the list.
C14_BatchGoesOn ==
    /\ [][ SubjectFailedInBatch =>
              /\ subject_results' = Append(subject_results,
                                           [key |-> subjects[si], value |-> FALSE])
              /\ si' = si + 1 /\ pc' = "next_subject" ]_vars
    /\ [][ (pc = "next_subject" /\ si <= Len(subjects)) =>
              (pc' = "subject" /\ si' = si) ]_vars
    /\ [][ (pc = "subject" /\ tree[subjects[si]] = <<>> /\ pc' # "subject_raised") =>
              (pc' = "subject_returned" /\ ~ subject_success') ]_vars
    /\ []( (mode = "batch" /\ pc = "exited") => ResultKeys = subjects )

\* C14 witness: a batch of two subjects has ended, the first without
\* sessions and recorded as False, the second converted and recorded as True
C14_Witness ==
    /\ mode = "batch" /\ pc = "exited"
    /\ Len(subjects) = 2
    /\ tree[subjects[1]] = <<>>
    /\ subject_results = << [key |-> subjects[1], value |-> FALSE],
                            [key |-> subjects[2], value |-> TRUE] >>
    /\ Len(invocations) >= 1

\* the run has ended because convert_subject raised in --subject mode
Crashed == \E l \in 1..Len(log) : log[l][1] = "Traceback (most recent call last)"

Without(s, c) == SelectSeq(s, LAMBDA x : x # c)

\* the output directory and file name C16 gives for a subject, a timestamp
\* directory and a (category, suffix)
ExpectedOutput(subject, timestamp_dir, category, suffix) ==
    LET sub == <<"s","u","b","-">> \o Without(subject, "_")
        ses == <<"s","e","s","-">> \o Without(SubSeq(timestamp_dir, 1, 10), "-")
    IN  [o |-> [subject_dir |-> sub, session_dir |-> ses, modality_dir |-> category],
         f |-> [stem |-> sub \o <<"_">> \o ses \o <<"_">>, suffix |-> suffix]]

\* C16: every invocation of the converter has output directory
\* sub-<subject without underscores>/ses-<date of the timestamp directory
\* without separators>/<category> and file name
\* sub-.._ses-.._<suffix>, (category, suffix) being what the classifier
\* returns for the acquisition directory; 027_S_6512 / MPRAGE /
\* 2022-03-31_13_38_14.0 gives sub-027S6512_ses-20220331_T1w; and two
\* invocations of one session with the same category and suffix have the
\* same file name.
C16_OutputPath ==
    \A k \in 1..Len(invocations) :
        LET inv == invocations[k]
            mapped == map_modality_to_bids(inv.source[2])
            expected == ExpectedOutput(inv.source[1], inv.source[3],
                                       mapped.modality, mapped.suffix)
        IN  /\ mapped.modality # None
            /\ inv.o = expected.o
            /\ inv.f = expected.f
            /\ inv.source = << SubjectId, <<"M","P","R","A","G","E">>, SessionTimestampDir >> =>
                  /\ inv.f.stem = <<"s","u","b","-","0","2","7","S","6","5","1","2","_",
                                    "s","e","s","-","2","0","2","2","0","3","3","1","_">>
                  /\ inv.f.suffix = "T1w"
                  /\ inv.o.modality_dir = "anat"
            /\ \A j \in 1..Len(invocations) :
                  (invocations[j].o = inv.o /\ invocations[j].f.suffix = inv.f.suffix) =>
                      invocations[j].f = inv.f

\* C16 witness: two different acquisitions of one session were converted
\* into the same directory under the same file name
C16_Witness ==
    /\ Len(invocations) = 2
    /\ invocations[1].source # invocations[2].source
    /\ invocations[1].source[1] = SubjectId
    /\ invocations[1].source[3] = SessionTimestampDir
    /\ invocations[1].o = invocations[2].o
    /\ invocations[1].f = invocations[2].f

\* the number a date YYYYMMDD stands for
RECURSIVE DateNumber(_)
DateNumber(date) ==
    IF date = <<>> THEN 0
    ELSE 10 * DateNumber(SubSeq(date, 1, Len(date) - 1))
         + (CHOOSE n \in 0..9 : Digits[n + 1] = date[Len(date)])

\* the lines of the log that head a session, in order
SessionLines == SelectSeq(log, LAMBDA line : line[1] = "Converting")

\* the session line that line l of the log comes under
SessionLineOf(l) ==
    log[CHOOSE h \in 1..l : IsSessionLine(h) /\ \A k \in (h + 1)..l : ~ IsSessionLine(k)]

\* C18: the sessions of a subject are entered in ascending order of date;
\* every acquisition is attempted under the session of its date (so all the
\* acquisitions of a session come before the next session is entered); and
\* when convert_subject returns every date of the scan has been entered
\* once and every acquisition attempted once.
C18_SessionOrder ==
    (pc \in {"convert", "subject_returned"} /\ sessions # <<>>) =>
        /\ \A a, b \in 1..Len(SessionLines) :
              a < b => DateNumber(SessionLines[a][3]) < DateNumber(SessionLines[b][3])
        /\ \A l \in 1..Len(log) :
              IsAcquisitionLine(l) =>
                  SessionLineOf(l)[3] = Without(SubSeq(log[l][3], 1, 10), "-")
        /\ pc = "subject_returned" =>
              /\ { SessionLines[a][3] : a \in 1..Len(SessionLines) }
                    = { Without(SubSeq(tree[subject_id][i].session_timestamp_dir, 1, 10), "-")
                          : i \in 1..ScanLength }
              /\ \A i \in 1..ScanLength :
                    Cardinality({ l \in 1..Len(log) :
                        /\ IsAcquisitionLine(l)
                        /\ log[l][2] = tree[subject_id][i].modality_dir
                        /\ log[l][3] = tree[subject_id][i].session_timestamp_dir }) = 1

\* C18 witness: convert_subject has returned for a scan that met the later
\* day first; the earlier day's session was converted first
C18_Witness ==
    /\ pc = "subject_returned"
    /\ Len(tree[subjects[si]]) = 2
    /\ tree[subjects[si]][1].session_timestamp_dir = SessionTimestampDir
    /\ tree[subjects[si]][2].session_timestamp_dir = EarlierTimestampDir
    /\ Len(log) = 4
    /\ log[2][3] = EarlierTimestampDir
    /\ log[4][3] = SessionTimestampDir

-----------------------------------------------------------------------------
(* execute_renames as a loop that runs to its end (SpecExecLive).           *)

\* one pass of the body of `for item in rename_plan`, or the return
ExecStep ==
    \/ ExecSourceMissing
    \/ ExecTargetExists
    \/ ExecPreview
    \/ ExecMove
    \/ ExecMoveError
    \/ ExecReturn

\* the paths of the plans of a single call: two files of one directory and
\* one of another (enough for every branch of the loop)
LivePaths == { <<"d","/","a">>, <<"d","/","b">>, <<"e","/","a">> }

\* a single call of execute_renames, on any plan over LivePaths
InitExecLive ==
    /\ InitExec
    /\ fs \subseteq LivePaths
    /\ \A i \in 1..Len(rename_plan) :
          rename_plan[i].old_path \in LivePaths /\ rename_plan[i].new_path \in LivePaths

\* execute_renames is sequential code with no blocking call: a call that has
\* started goes on taking its steps until it returns
SpecExecLive == InitExecLive /\ [][ExecStep]_vars /\ WF_vars(ExecStep)

\* the messages an entry can leave in errors
MessagesOf(item) == { SourceMissing(item), TargetExists(item), RenameError(item) }

\* C21: in either mode the loop of execute_renames handles the entry at ei
\* and moves to ei + 1, never back and never skipping, from the first entry
\* to the last; each entry handled is counted either as a success (errors
\* unchanged) or as a failure with exactly one message about that entry
\* appended; so succeeded + failed is the number of entries handled and the
\* error list has one message per failure; and every call returns, with
\* succeeded + failed equal to the number of entries of the plan.
C21_EachEntryOnce ==
    /\ [][ pc = "exec" =>
              \/ /\ AtEntry /\ pc' = "exec" /\ ei' = ei + 1
                 /\ rename_plan' = rename_plan
                 /\ \/ /\ success_count' = success_count + 1
                       /\ error_count' = error_count /\ errors' = errors
                    \/ /\ success_count' = success_count
                       /\ error_count' = error_count + 1
                       /\ \E msg \in MessagesOf(rename_plan[ei]) :
                             errors' = Append(errors, msg)
              \/ /\ ~ AtEntry /\ pc' = "returned"
                 /\ ei = Len(rename_plan) + 1
                 /\ success_count' = success_count /\ error_count' = error_count
                 /\ errors' = errors ]_vars
    /\ [](pc = "exec" =>
              /\ ei \in 1..(Len(rename_plan) + 1)
              /\ success_count + error_count = ei - 1
              /\ Len(errors) = error_count)
    /\ [](pc = "returned" =>
              /\ success_count + error_count = Len(rename_plan)
              /\ Len(errors) = error_count)
    /\ (pc = "exec" ~> pc = "returned")

\* C21 witness: an apply run over two entries has returned, the first entry
\* moved, the second failed with an I/O error, its message the only one
C21_Witness ==
    /\ pc = "returned" /\ run = 1 /\ ~ dry_run
    /\ Len(rename_plan) = 2
    /\ success_count = 1 /\ error_count = 1
    /\ errors = << RenameError(rename_plan[2]) >>
    /\ rename_plan[1].old_path \notin fs

-----------------------------------------------------------------------------
(* execute_renames on plans that may name directories (SpecExecTree).       *)

\* the paths of these plans: three files of a directory e, and a path d that
\* is also the directory of the fifth path, d/f
TreePaths == { <<"e","/","a">>, <<"e","/","b">>, <<"e","/","c">>, <<"d","/","f">>, <<"d">> }

\* an entry renames a path to another one
TreeEntries == { item \in [old_path : TreePaths, new_path : TreePaths] : item.old_path # item.new_path }

\* the plans over TreePaths, of up to MaxPlan entries
TreePlans == UNION {[1..n -> TreeEntries] : n \in 0..MaxPlan}

\* the files a disk can hold at TreePaths: no file is inside a file
TreeFiles == { files \in SUBSET TreePaths : \A p \in files : Ancestors(p) \cap files = {} }

\* the directories of a disk holding the files: e, those above the files,
\* and possibly d, empty
TreeDirs(files) == { {<<"e">>} \cup UNION {Ancestors(p) : p \in files} \cup extra : extra \in SUBSET ({<<"d">>} \ files) }

\* execute_renames is called in preview mode (its default) on any plan over
\* TreePaths, on any such disk
InitExecTree ==
    /\ pc = "exec"
    /\ rename_plan \in TreePlans
    /\ fs \in TreeFiles
    /\ dirs \in TreeDirs(fs)
    /\ dry_run = TRUE
    /\ fs0 = fs
    /\ ei = 1
    /\ success_count = 0
    /\ error_count = 0
    /\ errors = <<>>
    /\ run = 1
    /\ first = <<>>
    /\ RestClassify /\ RestPlan /\ RestConvert

SpecExecTree == InitExecTree /\ [][NextExec]_vars

\* a preview of the plan has returned, and then an apply of the same plan,
\* started on the same files, in which no makedirs or move raised
PreviewThenApply ==
    /\ pc = "returned" /\ run = 2
    /\ first.dry_run /\ ~ dry_run
    /\ fs0 = first.fs0
    /\ \A k \in 1..Len(errors) : errors[k][1] # "Error renaming"

\* the old paths of the plan are pairwise distinct, and so are the new paths
DistinctPaths ==
    \A i, j \in 1..Len(rename_plan) :
        i # j => /\ rename_plan[i].old_path # rename_plan[j].old_path
                 /\ rename_plan[i].new_path # rename_plan[j].new_path

\* the apply reports what the preview reported
SameReport ==
    /\ success_count = first.success_count
    /\ error_count = first.error_count
    /\ errors = first.errors

\* C22 (as claimed): for a plan with pairwise distinct old paths, pairwise
\* distinct new paths and no new path equal to an old path, the apply (no
\* I/O error occurring) reports the same succeeded count, failed count and
\* error list as the preview started from the same filesystem state.
C22_PreviewEqualsApplyAsClaimed ==
    (PreviewThenApply /\ DistinctPaths /\ NoNewIsOld) => SameReport

\* C22 (amended): the same, for a plan in which, moreover, no path is a
\* directory above another path of the plan: then no entry's makedirs or
\* move creates or removes what another entry's checks look at.
C22_PreviewEqualsApply ==
    (PreviewThenApply /\ DistinctPaths /\ NoNewIsOld /\ NoPathAbove) => SameReport

\* C22 witness: a preview and an apply of a two-entry plan have returned
\* with the same report, one success and one error, the apply having moved
\* a file into a directory it had to make
C22_Witness ==
    /\ PreviewThenApply /\ DistinctPaths /\ NoNewIsOld /\ NoPathAbove
    /\ Len(rename_plan) = 2
    /\ SameReport
    /\ success_count = 1 /\ error_count = 1
    /\ fs # fs0
    /\ <<"d">> \in dirs /\ <<"d">> \notin first.dirs
=============================================================================
